---- MODULE Spec2Model ----
\* A model of the generative client (GenerativeClient in the generative
\* package): request validation, the model pre-check, the retry loop with
\* exponential backoff, single-shot and streaming generation, and the
\* classification of the terminal error.
\*
\* Conventions of the model
\*   - texts that the code inspects or concatenates (error messages,
\*     response texts, stream fragments) are sequences of one-character
\*     strings, so that String.includes and += are computed, not assumed;
\*   - an optional field is a set with no element (absent) or one (present);
\*   - temperature and topP are counted in tenths (0.7 is 7, 2 is 20);
\*   - a prompt is represented by its length, the only thing validation reads.
EXTENDS Integers, Sequences, FiniteSets, TLC

\* ------------------------------------------------------------------ bounds
MaxRetriesBound == 2
MaxFragments == 2
MaxListing == 2
MaxNesting == 4

\* ------------------------------------------------------- program constants
PromptMinLen == 1
PromptMaxLen == 1000
TemperatureMin == 0
TemperatureMax == 20
DefaultTemperature == 7
TopPMin == 0
TopPMax == 10
DefaultTopP == 9
DefaultBaseRetryDelay == 1000
ContextLengthMin == 512
ContextLengthMax == 32768
DefaultModel == "llama2"

\* --------------------------------------------------------------- the texts
PatRateLimit == <<"r", "a", "t", "e", " ", "l", "i", "m", "i", "t">>
PatNetwork == <<"n", "e", "t", "w", "o", "r", "k">>
PatTimeout == <<"t", "i", "m", "e", "o", "u", "t">>
PatModelNotFound == <<"m", "o", "d", "e", "l", " ", "n", "o", "t", " ", "f", "o", "u", "n", "d">>
PatNoSuchModel == <<"n", "o", " ", "s", "u", "c", "h", " ", "m", "o", "d", "e", "l">>

MsgRateLimit == <<"r", "a", "t", "e", " ", "l", "i", "m", "i", "t", " ", "e", "x", "c", "e", "e", "d", "e", "d">>
MsgModelNotFound == <<"m", "o", "d", "e", "l", " ", "n", "o", "t", " ", "f", "o", "u", "n", "d">>
MsgNetwork == <<"n", "e", "t", "w", "o", "r", "k", " ", "d", "o", "w", "n">>
MsgTimeout == <<"t", "i", "m", "e", "o", "u", "t">>
MsgStreamInterrupted == <<"S", "t", "r", "e", "a", "m", " ", "i", "n", "t", "e", "r", "r", "u", "p", "t", "e", "d">>
MsgUpperCase == <<"N", "e", "t", "w", "o", "r", "k", " ", "T", "i", "m", "e", "o", "u", "t">>
MsgNotFoundTimeout == <<"m", "o", "d", "e", "l", " ", "n", "o", "t", " ", "f", "o", "u", "n", "d", ":", " ", "t", "i", "m", "e", "o", "u", "t">>
MsgRateLimitTimeout == <<"r", "a", "t", "e", " ", "l", "i", "m", "i", "t", " ", "t", "i", "m", "e", "o", "u", "t">>
MsgNoSuchModel == <<"n", "o", " ", "s", "u", "c", "h", " ", "m", "o", "d", "e", "l">>
MsgRefused == <<"c", "o", "n", "n", "e", "c", "t", "i", "o", "n", " ", "r", "e", "f", "u", "s", "e", "d">>
MsgHandlerFailed == <<"h", "a", "n", "d", "l", "e", "r", " ", "f", "a", "i", "l", "e", "d">>
MsgHandlerTimeout == <<"h", "a", "n", "d", "l", "e", "r", " ", "t", "i", "m", "e", "o", "u", "t">>
MsgUndefined == <<"u", "n", "d", "e", "f", "i", "n", "e", "d">>
TextA == <<"G", "e", "n", "e", "r", "a", "t", "e", "d", " ", "t", "e", "x", "t">>
TextB == <<"O", "t", "h", "e", "r", " ", "t", "e", "x", "t">>
FragToken == <<" ", "t", "o", "k", "e", "n">>
FragBy == <<" ", "b", "y">>

\* String.prototype.includes: pat occurs in text as a contiguous run.
Includes(text, pat) ==
    \E i \in 1..(Len(text) - Len(pat) + 1) : SubSeq(text, i, i + Len(pat) - 1) = pat

\* ------------------------------------------------------------- the inputs
None == {}
Some(v) == {v}
Get(opt) == CHOOSE v \in opt : TRUE

\* What the remote generate call, the stream and the callbacks can fail with.
GenerateFailures ==
    {MsgRateLimit, MsgModelNotFound, MsgNetwork, MsgTimeout, MsgStreamInterrupted,
     MsgUpperCase, MsgNotFoundTimeout, MsgRateLimitTimeout}
StreamFailures == {MsgStreamInterrupted, MsgNetwork}
ShowFailures == {MsgNoSuchModel, MsgRefused}
HandlerFailures == {MsgHandlerFailed, MsgHandlerTimeout}
OnErrorFailures == {MsgHandlerFailed, MsgModelNotFound}
Texts == {TextA, TextB}

\* The fragments a stream delivers: " token", " by", " token", " by", ...
FragmentAt(i) == IF i % 2 = 1 THEN FragToken ELSE FragBy
Fragments(n) == [i \in 1..n |-> FragmentAt(i)]

\* A remote stream: its fragments, then normal completion or a raised error.
Streams ==
    {[parts |-> Fragments(n), fails |-> f] :
        n \in 0..MaxFragments, f \in {None} \cup {Some(m) : m \in StreamFailures}}

Error(msg) == [type |-> "Error", message |-> msg]
Undefined == [type |-> "undefined"]

NoHandler == [present |-> FALSE, onToken |-> FALSE, onComplete |-> FALSE, onError |-> FALSE]
FullHandler == [present |-> TRUE, onToken |-> TRUE, onComplete |-> TRUE, onError |-> TRUE]
EmptyHandler == [present |-> TRUE, onToken |-> FALSE, onComplete |-> FALSE, onError |-> FALSE]
StreamHandlers == {NoHandler, FullHandler, EmptyHandler}

\* Raw generate options, before validation.
AllRequests ==
    [prompt : {0, PromptMinLen, PromptMaxLen, PromptMaxLen + 1},
     model : {None, Some(""), Some("llama2"), Some("mistral")},
     context : {None, Some(<<1, 2>>)},
     temperature : {None, Some(TemperatureMin - 1), Some(TemperatureMin),
                    Some(TemperatureMax), Some(TemperatureMax + 1)},
     topP : {None, Some(TopPMin - 1), Some(TopPMin), Some(TopPMax), Some(TopPMax + 1)},
     system : {None, Some("be brief")},
     stream : {None, Some(TRUE), Some(FALSE)}]

\* The requests generate is called with: a request with every optional field
\* omitted but the model and the stream flag, which take every value, and the
\* requests that put one field just outside its bounds.
GenerateRequests ==
    {r \in AllRequests :
        /\ r.context = None /\ r.system = None
        /\ \/ /\ r.prompt = PromptMinLen /\ r.temperature = None /\ r.topP = None
              /\ r.model \in {None, Some("mistral"), Some("")}
           \/ /\ r.prompt \in {0, PromptMaxLen + 1}
              /\ r.temperature = None /\ r.topP = None /\ r.model = None
           \/ /\ r.prompt = PromptMaxLen /\ r.model = Some("llama2") /\ r.stream = None
              /\ r.temperature \in {Some(TemperatureMax), Some(TemperatureMax + 1)}
              /\ r.topP \in {Some(TopPMin), Some(TopPMin - 1)}}

\* ------------------------------------------------------------- validation
\* Mutant: the maximum length of the prompt is not enforced.
SchemaAccepts_NoPromptMax(o) ==
    /\ o.prompt >= PromptMinLen
    /\ \A m \in o.model : m # ""
    /\ \A t \in o.temperature : t >= TemperatureMin /\ t <= TemperatureMax
    /\ \A p \in o.topP : p >= TopPMin /\ p <= TopPMax

\* generateOptionsSchema: the bounds of each field.
SchemaAccepts(o) ==
    /\ o.prompt >= PromptMinLen
    /\ o.prompt <= PromptMaxLen
    /\ \A m \in o.model : m # ""
    /\ \A t \in o.temperature : t >= TemperatureMin /\ t <= TemperatureMax
    /\ \A p \in o.topP : p >= TopPMin /\ p <= TopPMax

\* Mutant: the defaults of temperature and topP are swapped.
SchemaDefaults_Swapped(o) ==
    [prompt |-> o.prompt,
     model |-> IF o.model = None THEN DefaultModel ELSE Get(o.model),
     context |-> IF o.context = None THEN <<>> ELSE Get(o.context),
     temperature |-> IF o.temperature = None THEN DefaultTopP ELSE Get(o.temperature),
     topP |-> IF o.topP = None THEN DefaultTemperature ELSE Get(o.topP),
     system |-> o.system,
     stream |-> IF o.stream = None THEN FALSE ELSE Get(o.stream)]

\* generateOptionsSchema: the defaults of the omitted fields.
SchemaDefaults(o) ==
    [prompt |-> o.prompt,
     model |-> IF o.model = None THEN DefaultModel ELSE Get(o.model),
     context |-> IF o.context = None THEN <<>> ELSE Get(o.context),
     temperature |-> IF o.temperature = None THEN DefaultTemperature ELSE Get(o.temperature),
     topP |-> IF o.topP = None THEN DefaultTopP ELSE Get(o.topP),
     system |-> o.system,
     stream |-> IF o.stream = None THEN FALSE ELSE Get(o.stream)]

NotValidated == [ok |-> FALSE, state |-> "none"]
ZodError == [type |-> "ZodError"]

\* validateGenerateOptions: the parsed options, or the schema's error thrown.
validateGenerateOptions(o) ==
    IF SchemaAccepts(o)
    THEN [ok |-> TRUE, value |-> SchemaDefaults(o)]
    ELSE [ok |-> FALSE, error |-> ZodError]

\* ---------------------------------------------------------------- errors
NoCause == [type |-> "none"]
NoContext == [type |-> "none"]

\* new GenerativeError(message, code, cause, context)
GenerativeError(message, code, cause, context) ==
    [name |-> "GenerativeError", message |-> message, code |-> code,
     cause |-> cause, context |-> context]

\* error instanceof Error ? error.message : String(error)
ErrorMessage(error) ==
    IF error.type = "Error" THEN error.message ELSE MsgUndefined

\* Mutant: "timeout" is not looked for.
isRetryableError_NoTimeout(error) ==
    \/ Includes(ErrorMessage(error), PatRateLimit)
    \/ Includes(ErrorMessage(error), PatNetwork)

isRetryableError(error) ==
    \/ Includes(ErrorMessage(error), PatRateLimit)
    \/ Includes(ErrorMessage(error), PatNetwork)
    \/ Includes(ErrorMessage(error), PatTimeout)

RECURSIVE Pow2(_)
Pow2(n) == IF n = 0 THEN 1 ELSE 2 * Pow2(n - 1)

\* ----------------------------------------------------------------- state
VARIABLES
    maxRetries,      \* this.maxRetries
    baseRetryDelay,  \* this.baseRetryDelay
    modelConfigs,    \* this.modelConfigs: model id -> descriptor
    modelStatus,     \* this.modelStatus: model id -> status
    pc,              \* where the call in progress stands
    options,         \* generate's argument, as passed
    streamHandler,   \* generate's second argument
    validated,       \* the result of validateGenerateOptions
    attempt,         \* the loop counter of generate
    lastError,       \* the local lastError of generate
    stream,          \* what is left of the remote stream being consumed
    fullResponse,    \* the accumulator of the streaming path
    remoteCalls,     \* the remote calls issued, in order
    logs,            \* the entries given to the logger, in order
    streamEvents,    \* the events consumed from the stream of this attempt
    handlerCalls,    \* the callbacks of the stream handler invoked, in order
    sleeps,          \* the delays slept, in order
    outcome,         \* what the call returned or raised
    call,            \* the registry operation in progress and its arguments
    frames           \* its stack of preload / unload / update activations

vars == <<maxRetries, baseRetryDelay, modelConfigs, modelStatus, pc, options,
          streamHandler, validated, attempt, lastError, stream, fullResponse,
          remoteCalls, logs, streamEvents, handlerCalls, sleeps, outcome,
          call, frames>>

activation == <<call, frames>>
client == <<maxRetries, baseRetryDelay>>
registry == <<modelConfigs, modelStatus>>

DefaultCapabilities ==
    [maxContextLength |-> 4096, streaming |-> TRUE, systemPrompts |-> TRUE,
     temperatureRange |-> [min |-> 0, max |-> 20, default |-> 7],
     topPRange |-> [min |-> 0, max |-> 10, default |-> 9]]

\* The descriptor the code synthesizes for a model.
Descriptor(id, name, config) ==
    [id |-> id, name |-> name, provider |-> "ollama",
     capabilities |-> DefaultCapabilities, config |-> config, customConfig |-> None]

NoStream == [parts |-> <<>>, fails |-> None]
NoOutcome == [type |-> "none"]
NoCall == [op |-> "none"]
Returned(text) == [type |-> "returned", text |-> text]
Raised(error) == [type |-> "raised", error |-> error]

\* new GenerativeClient({maxRetries, baseRetryDelay, logger})
Init ==
    /\ maxRetries \in 0..MaxRetriesBound
    /\ baseRetryDelay = DefaultBaseRetryDelay
    /\ modelConfigs = [id \in {"llama2"} |-> Descriptor("llama2", "Llama 2", None)]
    /\ modelStatus = [id \in {} |-> 0]
    /\ pc = "idle"
    /\ options = [type |-> "none"]
    /\ streamHandler = NoHandler
    /\ validated = NotValidated
    /\ attempt = 0
    /\ lastError = Undefined
    /\ stream = NoStream
    /\ fullResponse = <<>>
    /\ remoteCalls = <<>>
    /\ logs = <<>>
    /\ streamEvents = <<>>
    /\ handlerCalls = <<>>
    /\ sleeps = <<>>
    /\ outcome = NoOutcome
    /\ call = NoCall
    /\ frames = <<>>

\* ------------------------------------------------------------ the logger
LogDebug(message, ctx) == [level |-> "debug", message |-> message, ctx |-> ctx]
LogInfo(message, ctx) == [level |-> "info", message |-> message, ctx |-> ctx]
LogWarn(message, ctx) == [level |-> "warn", message |-> message, ctx |-> ctx]
LogError(message, error, ctx) ==
    [level |-> "error", message |-> message, error |-> error, ctx |-> ctx]

\* --------------------------------------------------------- remote calls
\* An entry of remoteCalls: the call and what the remote answered.
ShowCall(id, r) == [op |-> "show", model |-> id, result |-> r]
GenerateCall(id, streaming, result) ==
    [op |-> "generate", model |-> id, stream |-> streaming, result |-> result]
TextResult(text) == [type |-> "text", text |-> text]
ErrorResult(msg) == [type |-> "error", message |-> msg]
OpenedResult == [type |-> "stream"]

\* An entry of streamEvents: what the consumer got from the stream.
PartEvent(text) == [type |-> "part", text |-> text]
EndEvent == [type |-> "end"]
ErrorEvent(msg) == [type |-> "error", message |-> msg]

\* An entry of handlerCalls: the callback, its argument and what it raised.
HandlerCall(cb, arg, raises) == [cb |-> cb, arg |-> arg, raises |-> raises]

\* Mutant: the loop runs one attempt short.
LoopCondition_OneShort(a) == a < maxRetries

\* for (let attempt = 0; attempt <= this.maxRetries; attempt++)
LoopCondition(a) == a <= maxRetries

\* ------------------------------------------------- generate: validation
\* generate, up to the first remote call: validation, then the cache lookup
\* of getModel.
Generate(o, h) ==
    /\ pc = "idle"
    /\ UNCHANGED streamEvents
    /\ options' = o
    /\ streamHandler' = h
    /\ validated' = validateGenerateOptions(o)
    /\ IF validated'.ok
       THEN /\ pc' = IF validated'.value.model \in DOMAIN modelConfigs
                     THEN "getModelStatus" ELSE "getModel"
            /\ UNCHANGED <<logs, outcome>>
       ELSE LET e == GenerativeError("Validation failed", "VALIDATION_FAILED",
                                     validated'.error, o)
            IN /\ logs' = Append(logs, LogError("Validation failed", e, NoContext))
               /\ outcome' = Raised(e)
               /\ pc' = "done"
    /\ UNCHANGED <<activation, client, registry, attempt, lastError, stream, fullResponse,
                   remoteCalls, handlerCalls, sleeps>>

\* ------------------------------------------------ generate: the pre-check
\* What ollama.show answers: success, or one of the failures.
ShowOutcomes == {None} \cup {Some(m) : m \in ShowFailures}

TheModel == validated.value.model

\* getModel past the cache: the remote lookup and what getModel makes of it.
\* A lookup that succeeds caches a descriptor; one that fails with "no such
\* model" answers null; any other failure is raised as INVALID_MODEL.
\* Mutant: no failure of the lookup is taken for "the model does not exist".
GetModelNull_Never(r) == FALSE

GetModelNull(r) == r # None /\ Includes(Get(r), PatNoSuchModel)

GenerateGetModel(r) ==
    /\ pc = "getModel"
    /\ UNCHANGED streamEvents
    /\ remoteCalls' = Append(remoteCalls, ShowCall(TheModel, r))
    /\ IF r = None
       THEN /\ modelConfigs' = [id \in DOMAIN modelConfigs \cup {TheModel} |->
                                   IF id = TheModel
                                   THEN Descriptor(TheModel, TheModel, Some("raw"))
                                   ELSE modelConfigs[id]]
            /\ pc' = "getModelStatus"
            /\ UNCHANGED outcome
       ELSE /\ UNCHANGED modelConfigs
            /\ pc' = "done"
            /\ outcome' =
                 IF GetModelNull(r)
                 THEN Raised(GenerativeError("Model not found", "INVALID_MODEL",
                                             NoCause, NoContext))
                 ELSE Raised(GenerativeError("Failed to get model information",
                                             "INVALID_MODEL", Error(Get(r)), NoContext))
    /\ UNCHANGED <<activation, client, modelStatus, options, streamHandler, validated, attempt,
                   lastError, stream, fullResponse, logs, handlerCalls, sleeps>>

\* The status getModelStatus computes, caches and returns: the cached entry
\* (or the default one) with loaded, status and error set from the lookup.
DefaultStatus == [loaded |-> FALSE, status |-> "loading", error |-> None, lastUsed |-> FALSE]

\* Mutant: a successful lookup leaves the error text of an earlier one.
StatusAfterShow_StaleError(id, r) ==
    LET status == IF id \in DOMAIN modelStatus THEN modelStatus[id] ELSE DefaultStatus
    IN IF r = None
       THEN [status EXCEPT !.loaded = TRUE, !.status = "ready"]
       ELSE [status EXCEPT !.loaded = FALSE, !.status = "error", !.error = r]

\* Mutant: the status is "ready" whatever the lookup answers.
StatusAfterShow_AlwaysReady(id, r) ==
    LET status == IF id \in DOMAIN modelStatus THEN modelStatus[id] ELSE DefaultStatus
    IN [status EXCEPT !.loaded = TRUE, !.status = "ready", !.error = None]

StatusAfterShow(id, r) ==
    LET status == IF id \in DOMAIN modelStatus THEN modelStatus[id] ELSE DefaultStatus
    IN IF r = None
       THEN [status EXCEPT !.loaded = TRUE, !.status = "ready", !.error = None]
       ELSE [status EXCEPT !.loaded = FALSE, !.status = "error", !.error = r]

\* Mutant: the status is not written back to the cache.
SetStatus_NotWritten(id, status) == modelStatus

\* this.modelStatus.set(modelId, status)
SetStatus(id, status) ==
    [m \in DOMAIN modelStatus \cup {id} |-> IF m = id THEN status ELSE modelStatus[m]]

\* The status check of generate, then the entry of the retry loop.
GenerateModelStatus(r) ==
    /\ pc = "getModelStatus"
    /\ UNCHANGED streamEvents
    /\ remoteCalls' = Append(remoteCalls, ShowCall(TheModel, r))
    /\ modelStatus' = SetStatus(TheModel, StatusAfterShow(TheModel, r))
    /\ IF StatusAfterShow(TheModel, r).status = "error"
       THEN /\ outcome' = Raised(GenerativeError("Model is in error state",
                                                 "INVALID_MODEL", NoCause, NoContext))
            /\ pc' = "done"
            /\ UNCHANGED logs
       ELSE /\ logs' = Append(logs, LogDebug("Starting generation",
                                             [model |-> TheModel,
                                              stream |-> validated.value.stream]))
            /\ pc' = IF LoopCondition(0) THEN "attempt" ELSE "terminal"
            /\ UNCHANGED outcome
    /\ attempt' = 0
    /\ UNCHANGED <<activation, client, modelConfigs, options, streamHandler, validated,
                   lastError, stream, fullResponse, handlerCalls, sleeps>>

\* ------------------------------------------------ generate: the retry loop
\* Mutant: the streaming path is taken whether or not a handler was given.
UseStreaming_HandlerIgnored == validated.value.stream

\* if (stream && streamHandler): the streaming path is taken.
UseStreaming == validated.value.stream /\ streamHandler.present

\* Mutant: the retry entry is logged before the first attempt as well.
LogsAtAttempt_Always ==
    Append(logs, LogInfo("Retrying generation",
                         [attempt |-> attempt, model |-> TheModel]))

\* if (attempt > 0) this.logger.info("Retrying generation", {attempt, model})
LogsAtAttempt ==
    IF attempt > 0
    THEN Append(logs, LogInfo("Retrying generation",
                              [attempt |-> attempt, model |-> TheModel]))
    ELSE logs

\* Mutant: the last attempt is followed by a sleep like the others.
ShouldBreak_NotOnLast(error, a) == ~isRetryableError(error)

\* if (!this.isRetryableError(error) || attempt === this.maxRetries) break
ShouldBreak(error, a) == ~isRetryableError(error) \/ a = maxRetries

\* Mutant: the exponent is one too large.
RetryDelay_ExponentOff(a) == baseRetryDelay * Pow2(a + 1)

\* const delay = this.baseRetryDelay * 2 ** attempt
RetryDelay(a) == baseRetryDelay * Pow2(a)

\* Mutant: the error of the first failed attempt is kept.
KeptError_First(error) == IF lastError = Undefined THEN error ELSE lastError

\* lastError = error
KeptError(error) == error

\* The catch of the retry loop: keep the error, then leave the loop or log a
\* warning and sleep.
LoopCatch(error, logs0) ==
    /\ lastError' = KeptError(error)
    /\ IF ShouldBreak(error, attempt)
       THEN /\ pc' = "terminal"
            /\ logs' = logs0
            /\ UNCHANGED sleeps
       ELSE /\ pc' = "sleep"
            /\ logs' = Append(logs0, LogWarn("Generation failed, will retry",
                                            [attempt |-> attempt,
                                             delay |-> RetryDelay(attempt),
                                             error |-> ErrorMessage(error)]))
            /\ sleeps' = Append(sleeps, RetryDelay(attempt))

\* The catch of the streaming path: onError (when the handler has one) is
\* given the error and awaited, and the error is thrown again; an error
\* raised by onError itself takes its place.
OnErrorOutcomes ==
    IF streamHandler.onError THEN {None} \cup {Some(m) : m \in OnErrorFailures} ELSE {None}

\* Mutant: the error is thrown again without onError being told.
StreamCatch_NoOnError(error, raised, logs0, calls0) ==
    /\ handlerCalls' = calls0
    /\ stream' = NoStream
    /\ fullResponse' = <<>>
    /\ LoopCatch(error, logs0)

StreamCatch(error, raised, logs0, calls0) ==
    /\ handlerCalls' = IF streamHandler.onError
                       THEN Append(calls0, HandlerCall("onError", error, raised))
                       ELSE calls0
    /\ stream' = NoStream
    /\ fullResponse' = <<>>
    /\ LoopCatch(IF raised = None THEN error ELSE Error(Get(raised)), logs0)

\* Single-shot attempt that succeeds: the response text is returned.
SingleShotSucceeds(text) ==
    /\ pc = "attempt"
    /\ UNCHANGED streamEvents
    /\ ~UseStreaming
    /\ remoteCalls' = Append(remoteCalls, GenerateCall(TheModel, FALSE, TextResult(text)))
    /\ logs' = Append(LogsAtAttempt, LogInfo("Generation successful",
                                             [model |-> TheModel]))
    /\ outcome' = Returned(text)
    /\ pc' = "done"
    /\ UNCHANGED <<activation, client, registry, options, streamHandler, validated, attempt,
                   lastError, stream, fullResponse, handlerCalls, sleeps>>

\* Single-shot attempt that fails.
SingleShotFails(msg) ==
    /\ pc = "attempt"
    /\ UNCHANGED streamEvents
    /\ ~UseStreaming
    /\ remoteCalls' = Append(remoteCalls, GenerateCall(TheModel, FALSE, ErrorResult(msg)))
    /\ LoopCatch(Error(msg), LogsAtAttempt)
    /\ UNCHANGED <<activation, client, registry, options, streamHandler, validated, attempt,
                   stream, fullResponse, handlerCalls, outcome>>

\* The fragments the stream of the current attempt delivered, in order.
DeliveredParts ==
    LET parts == SelectSeq(streamEvents, LAMBDA e : e.type = "part")
    IN [i \in 1..Len(parts) |-> parts[i].text]

RECURSIVE Concat(_)
Concat(texts) == IF texts = <<>> THEN <<>> ELSE Head(texts) \o Concat(Tail(texts))

\* Mutant: the accumulator still holds the fragments of the attempt before.
FreshResponse_Carried == Concat(DeliveredParts)

\* let fullResponse = "", at the start of every streaming attempt.
FreshResponse == <<>>

\* Streaming attempt: the remote call answers with a stream.
StreamOpens(s) ==
    /\ pc = "attempt"
    /\ streamEvents' = <<>>
    /\ UseStreaming
    /\ remoteCalls' = Append(remoteCalls, GenerateCall(TheModel, TRUE, OpenedResult))
    /\ logs' = LogsAtAttempt
    /\ fullResponse' = FreshResponse
    /\ stream' = s
    /\ pc' = "streaming"
    /\ UNCHANGED <<activation, client, registry, options, streamHandler, validated, attempt,
                   lastError, handlerCalls, sleeps, outcome>>

\* Streaming attempt: the remote call itself fails.
StreamOpenFails(msg, raised) ==
    /\ pc = "attempt"
    /\ streamEvents' = <<>>
    /\ UseStreaming
    /\ remoteCalls' = Append(remoteCalls, GenerateCall(TheModel, TRUE, ErrorResult(msg)))
    /\ StreamCatch(Error(msg), raised, LogsAtAttempt, handlerCalls)
    /\ UNCHANGED <<activation, client, registry, options, streamHandler, validated, attempt,
                   outcome>>

\* Mutant: the fragment is put in front of the accumulator.
Accumulate_Prepend(acc, part) == part \o acc

\* fullResponse += part.response
Accumulate(acc, part) == acc \o part

\* One event of the stream: onToken (when present) is awaited, then the
\* fragment is appended to the accumulator.
StreamPart ==
    /\ pc = "streaming"
    /\ stream.parts # <<>>
    /\ handlerCalls' = IF streamHandler.onToken
                       THEN Append(handlerCalls, HandlerCall("onToken", Head(stream.parts), None))
                       ELSE handlerCalls
    /\ fullResponse' = Accumulate(fullResponse, Head(stream.parts))
    /\ stream' = [stream EXCEPT !.parts = Tail(stream.parts)]
    /\ streamEvents' = Append(streamEvents, PartEvent(Head(stream.parts)))
    /\ UNCHANGED <<activation, client, registry, pc, options, streamHandler, validated, attempt,
                   lastError, remoteCalls, logs, sleeps, outcome>>

\* One event of the stream whose onToken raises: the fragment is not appended.
StreamPartTokenRaises(msg, raised) ==
    /\ pc = "streaming"
    /\ stream.parts # <<>>
    /\ streamHandler.onToken
    /\ StreamCatch(Error(msg), raised, logs,
                   Append(handlerCalls, HandlerCall("onToken", Head(stream.parts), Some(msg))))
    /\ streamEvents' = Append(streamEvents, PartEvent(Head(stream.parts)))
    /\ UNCHANGED <<activation, client, registry, options, streamHandler, validated, attempt,
                   remoteCalls, outcome>>

\* The stream is exhausted: completion is logged, onComplete (when present)
\* is awaited, and the accumulated text is returned.
StreamCompletes ==
    /\ pc = "streaming"
    /\ stream.parts = <<>>
    /\ stream.fails = None
    /\ logs' = Append(logs, LogInfo("Stream completed", [model |-> TheModel]))
    /\ handlerCalls' = IF streamHandler.onComplete
                       THEN Append(handlerCalls, HandlerCall("onComplete", fullResponse, None))
                       ELSE handlerCalls
    /\ outcome' = Returned(fullResponse)
    /\ stream' = NoStream
    /\ fullResponse' = <<>>
    /\ pc' = "done"
    /\ streamEvents' = Append(streamEvents, EndEvent)
    /\ UNCHANGED <<activation, client, registry, options, streamHandler, validated, attempt,
                   lastError, remoteCalls, sleeps>>

\* The stream is exhausted and onComplete raises.
StreamCompleteRaises(msg, raised) ==
    /\ pc = "streaming"
    /\ stream.parts = <<>>
    /\ stream.fails = None
    /\ streamHandler.onComplete
    /\ StreamCatch(Error(msg), raised,
                   Append(logs, LogInfo("Stream completed", [model |-> TheModel])),
                   Append(handlerCalls, HandlerCall("onComplete", fullResponse, Some(msg))))
    /\ streamEvents' = Append(streamEvents, EndEvent)
    /\ UNCHANGED <<activation, client, registry, options, streamHandler, validated, attempt,
                   remoteCalls, outcome>>

\* The stream raises after its last delivered fragment.
StreamRaises(raised) ==
    /\ pc = "streaming"
    /\ stream.parts = <<>>
    /\ stream.fails # None
    /\ StreamCatch(Error(Get(stream.fails)), raised, logs, handlerCalls)
    /\ streamEvents' = Append(streamEvents, ErrorEvent(Get(stream.fails)))
    /\ UNCHANGED <<activation, client, registry, options, streamHandler, validated, attempt,
                   remoteCalls, outcome>>

\* await this.sleep(delay), then attempt++ and the loop condition.
Sleep ==
    /\ pc = "sleep"
    /\ UNCHANGED streamEvents
    /\ attempt' = attempt + 1
    /\ pc' = IF LoopCondition(attempt + 1) THEN "attempt" ELSE "terminal"
    /\ UNCHANGED <<activation, client, registry, options, streamHandler, validated, lastError,
                   stream, fullResponse, remoteCalls, logs, handlerCalls, sleeps,
                   outcome>>

\* ------------------------------------------ generate: the terminal error
\* options.stream, read from the options as passed.
RawStream == options.stream = Some(TRUE)

\* Mutant: "model not found" is not looked for.
ClassifyError_NoModelBranch(error) ==
    LET errorMessage == ErrorMessage(error)
        v == validated.value
    IN IF Includes(errorMessage, PatRateLimit)
       THEN GenerativeError("Rate limit exceeded", "RATE_LIMIT_EXCEEDED", error,
                            [prompt |-> v.prompt, model |-> v.model])
       ELSE IF Includes(errorMessage, PatNetwork) \/ Includes(errorMessage, PatTimeout)
       THEN GenerativeError("Network error occurred", "NETWORK_ERROR", error,
                            [attempt |-> maxRetries + 1])
       ELSE IF RawStream
       THEN GenerativeError("Streaming error occurred", "STREAM_ERROR", error,
                            [prompt |-> v.prompt, model |-> v.model])
       ELSE GenerativeError("Failed to generate content", "GENERATION_FAILED", error,
                            [prompt |-> v.prompt, model |-> v.model])

\* Mutant: "timeout" does not count as a network error.
ClassifyError_NoTimeout(error) ==
    LET errorMessage == ErrorMessage(error)
        v == validated.value
    IN IF Includes(errorMessage, PatRateLimit)
       THEN GenerativeError("Rate limit exceeded", "RATE_LIMIT_EXCEEDED", error,
                            [prompt |-> v.prompt, model |-> v.model])
       ELSE IF Includes(errorMessage, PatModelNotFound)
       THEN GenerativeError("Invalid model specified", "INVALID_MODEL", error,
                            [model |-> v.model])
       ELSE IF Includes(errorMessage, PatNetwork)
       THEN GenerativeError("Network error occurred", "NETWORK_ERROR", error,
                            [attempt |-> maxRetries + 1])
       ELSE IF RawStream
       THEN GenerativeError("Streaming error occurred", "STREAM_ERROR", error,
                            [prompt |-> v.prompt, model |-> v.model])
       ELSE GenerativeError("Failed to generate content", "GENERATION_FAILED", error,
                            [prompt |-> v.prompt, model |-> v.model])

\* The classification of the last error, by the text of its message.
ClassifyError(error) ==
    LET errorMessage == ErrorMessage(error)
        v == validated.value
    IN IF Includes(errorMessage, PatRateLimit)
       THEN GenerativeError("Rate limit exceeded", "RATE_LIMIT_EXCEEDED", error,
                            [prompt |-> v.prompt, model |-> v.model])
       ELSE IF Includes(errorMessage, PatModelNotFound)
       THEN GenerativeError("Invalid model specified", "INVALID_MODEL", error,
                            [model |-> v.model])
       ELSE IF Includes(errorMessage, PatNetwork) \/ Includes(errorMessage, PatTimeout)
       THEN GenerativeError("Network error occurred", "NETWORK_ERROR", error,
                            [attempt |-> maxRetries + 1])
       ELSE IF RawStream
       THEN GenerativeError("Streaming error occurred", "STREAM_ERROR", error,
                            [prompt |-> v.prompt, model |-> v.model])
       ELSE GenerativeError("Failed to generate content", "GENERATION_FAILED", error,
                            [prompt |-> v.prompt, model |-> v.model])

\* After the loop: the error is classified, logged with the duration, raised.
Terminal ==
    /\ pc = "terminal"
    /\ UNCHANGED streamEvents
    /\ logs' = Append(logs, LogError("Generation failed", ClassifyError(lastError),
                                     [duration |-> TRUE]))
    /\ outcome' = Raised(ClassifyError(lastError))
    /\ pc' = "done"
    /\ UNCHANGED <<activation, client, registry, options, streamHandler, validated, attempt,
                   lastError, stream, fullResponse, remoteCalls, handlerCalls, sleeps>>

Next ==
    \/ \E o \in GenerateRequests, h \in StreamHandlers : Generate(o, h)
    \/ \E r \in ShowOutcomes : GenerateGetModel(r)
    \/ \E r \in ShowOutcomes : GenerateModelStatus(r)
    \/ \E t \in Texts : SingleShotSucceeds(t)
    \/ \E m \in GenerateFailures : SingleShotFails(m)
    \/ \E s \in Streams : StreamOpens(s)
    \/ \E m \in StreamFailures, r \in OnErrorOutcomes : StreamOpenFails(m, r)
    \/ StreamPart
    \/ \E m \in HandlerFailures, r \in OnErrorOutcomes : StreamPartTokenRaises(m, r)
    \/ StreamCompletes
    \/ \E m \in HandlerFailures, r \in OnErrorOutcomes : StreamCompleteRaises(m, r)
    \/ \E r \in OnErrorOutcomes : StreamRaises(r)
    \/ Sleep
    \/ Terminal

Spec == Init /\ [][Next]_vars

\* ------------------------------------------- validation on its own
\* validateGenerateOptions applied to every raw request of AllRequests.
InitValidate ==
    /\ maxRetries = MaxRetriesBound
    /\ baseRetryDelay = DefaultBaseRetryDelay
    /\ modelConfigs = [id \in {"llama2"} |-> Descriptor("llama2", "Llama 2", None)]
    /\ modelStatus = [id \in {} |-> 0]
    /\ pc = "validate"
    /\ options \in AllRequests
    /\ streamHandler = NoHandler
    /\ validated = NotValidated
    /\ attempt = 0
    /\ lastError = Undefined
    /\ stream = NoStream
    /\ fullResponse = <<>>
    /\ remoteCalls = <<>>
    /\ logs = <<>>
    /\ streamEvents = <<>>
    /\ handlerCalls = <<>>
    /\ sleeps = <<>>
    /\ outcome = NoOutcome
    /\ call = NoCall
    /\ frames = <<>>

ValidateOptions ==
    /\ pc = "validate"
    /\ UNCHANGED streamEvents
    /\ validated' = validateGenerateOptions(options)
    /\ pc' = "validated"
    /\ UNCHANGED <<activation, client, registry, options, streamHandler, attempt, lastError,
                   stream, fullResponse, remoteCalls, logs, handlerCalls, sleeps,
                   outcome>>

SpecValidate == InitValidate /\ [][ValidateOptions]_vars

\* ===================================================================
\* The model registry: listModels, getModel, getModelStatus, preloadModel,
\* unloadModel, updateModelConfig
\* ===================================================================
\* The model ids the operations are called with, and the names a remote
\* listing holds.
ModelIds == {"llama2", "mistral"}

\* The remote listings: every sequence of at most MaxListing names.
Listings == UNION {[1..n -> ModelIds] : n \in 0..MaxListing}
ListOutcomes ==
    {[type |-> "listing", names |-> l] : l \in Listings}
    \cup {[type |-> "error", message |-> MsgRefused]}

\* What ollama.pull and ollama.delete answer.
TransferOutcomes == {None, Some(MsgRefused)}

\* modelConfigSchema: the lower bounds of the numeric fields.
GpuLayersMin == 0
ThreadsMin == 1
BatchSizeMin == 1
MaxMemoryMin == 0
MaxGpuMemoryMin == 0
CpuCoresMin == 1
Quantizations == {"none", "4bit", "5bit", "8bit"}

\* The three groups of ModelConfigOptions with every field omitted.
NoParameters ==
    [contextLength |-> None, gpuLayers |-> None, quantization |-> None,
     threads |-> None, batchSize |-> None, modelParams |-> None]
NoResources == [maxMemory |-> None, maxGpuMemory |-> None, cpuCores |-> None]
NoPerformance == [useGpu |-> None, useMetal |-> None, useTensorCores |-> None]

\* The flat parameters sent to the remote, with no key set.
NoModelParams ==
    [context_length |-> None, gpu_layers |-> None, quantization |-> None,
     num_threads |-> None, batch_size |-> None, max_memory |-> None,
     max_gpu_memory |-> None, num_cpu |-> None, use_gpu |-> None,
     use_metal |-> None, use_tensor_cores |-> None]

\* ModelConfigOptions given to the registry operations: a context length, a
\* context length below the schema's minimum, and a performance group alone.
ConfigContext ==
    [parameters |-> Some([NoParameters EXCEPT !.contextLength = Some(ContextLengthMin)]),
     resources |-> None, performance |-> None]
ConfigTooSmall ==
    [parameters |-> Some([NoParameters EXCEPT !.contextLength = Some(ContextLengthMin - 1)]),
     resources |-> None, performance |-> None]
ConfigGpu ==
    [parameters |-> None, resources |-> None,
     performance |-> Some([NoPerformance EXCEPT !.useGpu = Some(TRUE)])]
Configs == {ConfigContext, ConfigTooSmall, ConfigGpu}

\* modelConfigSchema: every field given is within its bounds.
ConfigSchemaAccepts(config) ==
    /\ \A ps \in config.parameters :
        /\ \A c \in ps.contextLength : c >= ContextLengthMin /\ c <= ContextLengthMax
        /\ \A g \in ps.gpuLayers : g >= GpuLayersMin
        /\ \A q \in ps.quantization : q \in Quantizations
        /\ \A t \in ps.threads : t >= ThreadsMin
        /\ \A b \in ps.batchSize : b >= BatchSizeMin
    /\ \A rs \in config.resources :
        /\ \A m \in rs.maxMemory : m >= MaxMemoryMin
        /\ \A m \in rs.maxGpuMemory : m >= MaxGpuMemoryMin
        /\ \A c \in rs.cpuCores : c >= CpuCoresMin
    /\ \A pf \in config.performance :
        /\ \A u \in pf.useGpu : u \in BOOLEAN
        /\ \A u \in pf.useMetal : u \in BOOLEAN
        /\ \A u \in pf.useTensorCores : u \in BOOLEAN

\* `if (field)`: a number is copied unless it is 0, a string unless it is empty.
TruthyNumber(field) == {v \in field : v # 0}
TruthyString(field) == {v \in field : v # ""}

\* Object.assign and the assignments around it: the later writer of a key wins.
Assigned(later, earlier) == IF later # None THEN later ELSE earlier

\* applyModelConfig: the flat parameters sent to the remote.
ModelParams(config) ==
    LET ps == IF config.parameters = None THEN NoParameters ELSE Get(config.parameters)
        rs == IF config.resources = None THEN NoResources ELSE Get(config.resources)
        pf == IF config.performance = None THEN NoPerformance ELSE Get(config.performance)
        customParams == IF ps.modelParams = None THEN NoModelParams ELSE Get(ps.modelParams)
    IN  [context_length |-> Assigned(customParams.context_length, TruthyNumber(ps.contextLength)),
         gpu_layers |-> Assigned(customParams.gpu_layers, TruthyNumber(ps.gpuLayers)),
         quantization |-> Assigned(customParams.quantization, TruthyString(ps.quantization)),
         num_threads |-> Assigned(customParams.num_threads, TruthyNumber(ps.threads)),
         batch_size |-> Assigned(customParams.batch_size, TruthyNumber(ps.batchSize)),
         max_memory |-> Assigned(TruthyNumber(rs.maxMemory), customParams.max_memory),
         max_gpu_memory |-> Assigned(TruthyNumber(rs.maxGpuMemory), customParams.max_gpu_memory),
         num_cpu |-> Assigned(TruthyNumber(rs.cpuCores), customParams.num_cpu),
         use_gpu |-> Assigned(pf.useGpu, customParams.use_gpu),
         use_metal |-> Assigned(pf.useMetal, customParams.use_metal),
         use_tensor_cores |-> Assigned(pf.useTensorCores, customParams.use_tensor_cores)]

\* Entries of remoteCalls made by the registry operations.
ListCall(r) == [op |-> "list", result |-> r]
ConfigureCall(id, params, r) == [op |-> "show", model |-> id, params |-> params, result |-> r]
PullCall(id, r) == [op |-> "pull", model |-> id, result |-> r]
DeleteCall(id, r) == [op |-> "delete", model |-> id, result |-> r]

\* What an operation returns.
Null == [type |-> "null"]
ReturnedValue(v) == [type |-> "returned", value |-> v]
ReturnedVoid == [type |-> "returned"]

Call(op, id, config) == [op |-> op, id |-> id, config |-> config]
Frame(op, id, config, at) == [op |-> op, id |-> id, config |-> config, at |-> at]
Top == frames[Len(frames)]
Pop(fs) == SubSeq(fs, 1, Len(fs) - 1)
SetTop(fs, at) == [fs EXCEPT ![Len(fs)].at = at]

\* new GenerativeClient(), ready for a sequence of calls.
InitRegistry ==
    /\ maxRetries = 1
    /\ baseRetryDelay = DefaultBaseRetryDelay
    /\ modelConfigs = [id \in {"llama2"} |-> Descriptor("llama2", "Llama 2", None)]
    /\ modelStatus = [id \in {} |-> 0]
    /\ pc = "idle"
    /\ options = [type |-> "none"]
    /\ streamHandler = NoHandler
    /\ validated = NotValidated
    /\ attempt = 0
    /\ lastError = Undefined
    /\ stream = NoStream
    /\ fullResponse = <<>>
    /\ remoteCalls = <<>>
    /\ logs = <<>>
    /\ streamEvents = <<>>
    /\ handlerCalls = <<>>
    /\ sleeps = <<>>
    /\ outcome = NoOutcome
    /\ call = NoCall
    /\ frames = <<>>

generation == <<options, streamHandler, validated, attempt, lastError, stream,
                fullResponse, streamEvents, handlerCalls, sleeps>>

\* ------------------------------------------------------------ listModels
\* Mutant: every listed name gets a new descriptor, cached or not.
ListedConfig_AlwaysNew(configs, name) == Descriptor(name, name, None)

\* this.modelConfigs.get(model.name) || { ...default descriptor }
ListedConfig(configs, name) ==
    IF name \in DOMAIN configs THEN configs[name] ELSE Descriptor(name, name, None)

\* response.models.map(...): the descriptors returned and the cache after
\* the entries of the listing have been gone through in order.
RECURSIVE MapListing(_, _, _)
MapListing(names, configs, models) ==
    IF names = <<>>
    THEN [configs |-> configs, models |-> models]
    ELSE LET name == Head(names)
             config == ListedConfig(configs, name)
         IN MapListing(Tail(names),
                       [id \in DOMAIN configs \cup {name} |->
                           IF id = name THEN config ELSE configs[id]],
                       Append(models, config))

ListModels(r) ==
    /\ pc = "idle"
    /\ call' = Call("listModels", "", None)
    /\ remoteCalls' = Append(remoteCalls, ListCall(r))
    /\ IF r.type = "listing"
       THEN LET m == MapListing(r.names, modelConfigs, <<>>)
            IN /\ modelConfigs' = m.configs
               /\ logs' = Append(logs, LogDebug("Listed available models",
                                                [count |-> Len(m.models)]))
               /\ outcome' = ReturnedValue(m.models)
       ELSE /\ outcome' = Raised(GenerativeError("Failed to list models",
                                                 "INITIALIZATION_FAILED",
                                                 Error(r.message), NoContext))
            /\ UNCHANGED <<modelConfigs, logs>>
    /\ pc' = "done"
    /\ UNCHANGED <<client, modelStatus, generation, frames>>

\* -------------------------------------------------------------- getModel
\* Mutant: the cache is never hit.
CachedConfig_Miss(id) == None

\* const cachedConfig = this.modelConfigs.get(modelId)
CachedConfig(id) == IF id \in DOMAIN modelConfigs THEN Some(modelConfigs[id]) ELSE None

\* Mutant: the cache is replaced by the one descriptor.
CacheModel_Alone(id) == [m \in {id} |-> Descriptor(id, id, Some("raw"))]

\* this.modelConfigs.set(modelId, config), config made from the response.
CacheModel(id) ==
    [m \in DOMAIN modelConfigs \cup {id} |->
        IF m = id THEN Descriptor(id, id, Some("raw")) ELSE modelConfigs[m]]

\* What getModel makes of a failed lookup: null, or INVALID_MODEL.
GetModelFailure(r) ==
    IF GetModelNull(r)
    THEN ReturnedValue(Null)
    ELSE Raised(GenerativeError("Failed to get model information", "INVALID_MODEL",
                                Error(Get(r)), NoContext))

GetModel(id, r) ==
    /\ pc = "idle"
    /\ call' = Call("getModel", id, None)
    /\ IF CachedConfig(id) # None
       THEN /\ outcome' = ReturnedValue(Get(CachedConfig(id)))
            /\ UNCHANGED <<modelConfigs, remoteCalls>>
       ELSE /\ remoteCalls' = Append(remoteCalls, ShowCall(id, r))
            /\ IF r = None
               THEN /\ modelConfigs' = CacheModel(id)
                    /\ outcome' = ReturnedValue(modelConfigs'[id])
               ELSE /\ outcome' = GetModelFailure(r)
                    /\ UNCHANGED modelConfigs
    /\ pc' = "done"
    /\ UNCHANGED <<client, modelStatus, generation, logs, frames>>

\* -------------------------------------------------------- getModelStatus
GetModelStatus(id, r) ==
    /\ pc = "idle"
    /\ call' = Call("getModelStatus", id, None)
    /\ remoteCalls' = Append(remoteCalls, ShowCall(id, r))
    /\ modelStatus' = SetStatus(id, StatusAfterShow(id, r))
    /\ outcome' = ReturnedValue(StatusAfterShow(id, r))
    /\ pc' = "done"
    /\ UNCHANGED <<client, modelConfigs, generation, logs, frames>>

\* ------------------------------- preloadModel, unloadModel, updateModelConfig
\* The three operations call one another; each activation is a frame, and
\* each action below runs the frame on top up to its next remote call.
IsGenerativeError(e) == "name" \in DOMAIN e /\ e.name = "GenerativeError"

\* Mutant: updateModelConfig wraps every error, as the other two do.
Catch_WrapsAll(f, e) ==
    GenerativeError("Failed", "INITIALIZATION_FAILED", e, NoContext)

\* The catch clause of the operation of frame f, applied to error e.
Catch(f, e) ==
    IF f.op = "preloadModel"
    THEN GenerativeError("Failed to preload model", "INITIALIZATION_FAILED", e,
                         [modelId |-> f.id, config |-> f.config])
    ELSE IF f.op = "unloadModel"
    THEN GenerativeError("Failed to unload model", "INITIALIZATION_FAILED", e, NoContext)
    ELSE IF IsGenerativeError(e)
    THEN e
    ELSE GenerativeError("Failed to update model configuration",
                         "INITIALIZATION_FAILED", e,
                         [modelId |-> f.id, config |-> f.config])

\* The error that leaves the public operation when e is thrown in the top
\* frame of fs: every frame's catch clause in turn.
RECURSIVE Unwind(_, _)
Unwind(fs, e) == IF fs = <<>> THEN e ELSE Unwind(Pop(fs), Catch(fs[Len(fs)], e))

\* The stack once the frame on top of fs has returned: the caller goes on
\* to its next call, or returns in turn.
RECURSIVE Resume(_)
Resume(fs) ==
    IF fs = <<>>
    THEN <<>>
    ELSE LET f == fs[Len(fs)]
         IN IF f.at = "afterUnload"
            THEN Append(SetTop(fs, "afterPreload"),
                        Frame("preloadModel", f.id, f.config, "status"))
            ELSE Resume(Pop(fs))

\* The top frame throws e.
Throw(e) ==
    /\ frames' = <<>>
    /\ outcome' = Raised(Unwind(frames, e))
    /\ pc' = "done"

\* The top frame goes on with the stack fs.
Proceed(fs) ==
    /\ Len(fs) <= MaxNesting
    /\ frames' = fs
    /\ pc' = IF fs = <<>> THEN "done" ELSE "registry"
    /\ outcome' = IF fs = <<>> THEN ReturnedVoid ELSE outcome

\* applyModelConfig up to its remote call: validateModelConfig(config).
EnterApply(at) ==
    IF ConfigSchemaAccepts(Get(Top.config))
    THEN Proceed(SetTop(frames, at))
    ELSE Throw(ZodError)

Running(op, at) == pc = "registry" /\ Top.op = op /\ Top.at = at

PreloadModel(id, config) ==
    /\ pc = "idle"
    /\ call' = Call("preloadModel", id, config)
    /\ frames' = <<Frame("preloadModel", id, config, "status")>>
    /\ pc' = "registry"
    /\ UNCHANGED <<client, registry, generation, remoteCalls, logs, outcome>>

UnloadModel(id) ==
    /\ pc = "idle"
    /\ call' = Call("unloadModel", id, None)
    /\ frames' = <<Frame("unloadModel", id, None, "status")>>
    /\ pc' = "registry"
    /\ UNCHANGED <<client, registry, generation, remoteCalls, logs, outcome>>

UpdateModelConfig(id, config) ==
    /\ pc = "idle"
    /\ call' = Call("updateModelConfig", id, Some(config))
    /\ frames' = <<Frame("updateModelConfig", id, Some(config), "getModel")>>
    /\ pc' = "registry"
    /\ UNCHANGED <<client, registry, generation, remoteCalls, logs, outcome>>

\* The status preloadModel and unloadModel write after the transfer.
LoadedStatus_NotLoaded ==
    [loaded |-> FALSE, status |-> "ready", error |-> None, lastUsed |-> TRUE]
LoadedStatus == [loaded |-> TRUE, status |-> "ready", error |-> None, lastUsed |-> TRUE]
UnloadedStatus_StillLoaded ==
    [loaded |-> TRUE, status |-> "ready", error |-> None, lastUsed |-> TRUE]
UnloadedStatus == [loaded |-> FALSE, status |-> "ready", error |-> None, lastUsed |-> TRUE]

\* preloadModel: `if (status.loaded)`.
AlreadyLoaded_Never(status) == FALSE
AlreadyLoaded(status) == status.loaded

\* preloadModel: the status check, then the branch on status.loaded.
PreloadStatus(r) ==
    /\ Running("preloadModel", "status")
    /\ remoteCalls' = Append(remoteCalls, ShowCall(Top.id, r))
    /\ modelStatus' = SetStatus(Top.id, StatusAfterShow(Top.id, r))
    /\ IF AlreadyLoaded(StatusAfterShow(Top.id, r))
       THEN /\ logs' = Append(logs, LogDebug("Model already loaded", [modelId |-> Top.id]))
            /\ IF Top.config # None
               THEN Proceed(Append(SetTop(frames, "afterUpdate"),
                                   Frame("updateModelConfig", Top.id, Top.config,
                                         "getModel")))
               ELSE Proceed(Resume(Pop(frames)))
       ELSE /\ logs' = Append(logs, LogInfo("Preloading model", [modelId |-> Top.id]))
            /\ IF Top.config # None
               THEN EnterApply("apply")
               ELSE Proceed(SetTop(frames, "pull"))
    /\ UNCHANGED <<client, modelConfigs, generation, call>>

\* Mutant: the configuration is recorded for a model with no descriptor too.
RecordConfig_AnyModel(id, config) ==
    [m \in DOMAIN modelConfigs \cup {id} |->
        IF m = id
        THEN [(IF m \in DOMAIN modelConfigs THEN modelConfigs[m]
               ELSE Descriptor(id, id, None)) EXCEPT !.customConfig = config]
        ELSE modelConfigs[m]]

\* applyModelConfig: customConfig of the cached descriptor, when there is one.
RecordConfig(id, config) ==
    IF id \in DOMAIN modelConfigs
    THEN [modelConfigs EXCEPT ![id].customConfig = config]
    ELSE modelConfigs

\* applyModelConfig: the remote call with the flat parameters, then the
\* custom configuration of the cached descriptor.
ApplyModelConfig(r) ==
    /\ pc = "registry"
    /\ Top.at = "apply"
    /\ remoteCalls' = Append(remoteCalls,
                             ConfigureCall(Top.id, ModelParams(Get(Top.config)), r))
    /\ IF r = None
       THEN /\ modelConfigs' = RecordConfig(Top.id, Top.config)
            /\ logs' = Append(logs, LogInfo("Applied model configuration",
                                            [modelId |-> Top.id]))
            /\ Proceed(SetTop(frames, IF Top.op = "preloadModel" THEN "pull" ELSE "status"))
       ELSE /\ Throw(GenerativeError("Failed to apply model configuration",
                                     "INITIALIZATION_FAILED", Error(Get(r)),
                                     [modelId |-> Top.id,
                                      configParams |-> ModelParams(Get(Top.config))]))
            /\ UNCHANGED <<modelConfigs, logs>>
    /\ UNCHANGED <<client, modelStatus, generation, call>>

\* preloadModel: the pull, then the status written.
PreloadPull(r) ==
    /\ Running("preloadModel", "pull")
    /\ remoteCalls' = Append(remoteCalls, PullCall(Top.id, r))
    /\ IF r = None
       THEN /\ modelStatus' = SetStatus(Top.id, LoadedStatus)
            /\ Proceed(Resume(Pop(frames)))
       ELSE /\ Throw(Error(Get(r)))
            /\ UNCHANGED modelStatus
    /\ UNCHANGED <<client, modelConfigs, generation, logs, call>>

\* unloadModel: the status check, then the branch on status.loaded.
UnloadStatus(r) ==
    /\ Running("unloadModel", "status")
    /\ remoteCalls' = Append(remoteCalls, ShowCall(Top.id, r))
    /\ modelStatus' = SetStatus(Top.id, StatusAfterShow(Top.id, r))
    /\ IF StatusAfterShow(Top.id, r).loaded
       THEN /\ logs' = Append(logs, LogInfo("Unloading model", [modelId |-> Top.id]))
            /\ Proceed(SetTop(frames, "delete"))
       ELSE /\ logs' = Append(logs, LogDebug("Model not loaded", [modelId |-> Top.id]))
            /\ Proceed(Resume(Pop(frames)))
    /\ UNCHANGED <<client, modelConfigs, generation, call>>

\* unloadModel: the delete, then the status written.
UnloadDelete(r) ==
    /\ Running("unloadModel", "delete")
    /\ remoteCalls' = Append(remoteCalls, DeleteCall(Top.id, r))
    /\ IF r = None
       THEN /\ modelStatus' = SetStatus(Top.id, UnloadedStatus)
            /\ Proceed(Resume(Pop(frames)))
       ELSE /\ Throw(Error(Get(r)))
            /\ UNCHANGED modelStatus
    /\ UNCHANGED <<client, modelConfigs, generation, logs, call>>

\* updateModelConfig: getModel finds the descriptor in the cache.
UpdateModelCached ==
    /\ Running("updateModelConfig", "getModel")
    /\ CachedConfig(Top.id) # None
    /\ EnterApply("apply")
    /\ UNCHANGED <<client, registry, generation, remoteCalls, logs, call>>

\* updateModelConfig: getModel looks the model up on the remote.
UpdateGetModel(r) ==
    /\ Running("updateModelConfig", "getModel")
    /\ CachedConfig(Top.id) = None
    /\ remoteCalls' = Append(remoteCalls, ShowCall(Top.id, r))
    /\ IF r = None
       THEN /\ modelConfigs' = CacheModel(Top.id)
            /\ EnterApply("apply")
       ELSE /\ UNCHANGED modelConfigs
            /\ IF GetModelNull(r)
               THEN Throw(GenerativeError("Model not found", "INVALID_MODEL",
                                          NoCause, NoContext))
               ELSE Throw(GetModelFailure(r).error)
    /\ UNCHANGED <<client, modelStatus, generation, logs, call>>

\* updateModelConfig: the status check; a loaded model is unloaded, then
\* preloaded again.
UpdateStatus(r) ==
    /\ Running("updateModelConfig", "status")
    /\ remoteCalls' = Append(remoteCalls, ShowCall(Top.id, r))
    /\ modelStatus' = SetStatus(Top.id, StatusAfterShow(Top.id, r))
    /\ IF StatusAfterShow(Top.id, r).loaded
       THEN Proceed(Append(SetTop(frames, "afterUnload"),
                           Frame("unloadModel", Top.id, None, "status")))
       ELSE Proceed(Resume(Pop(frames)))
    /\ UNCHANGED <<client, modelConfigs, generation, logs, call>>

\* The caller has its result; the client is ready for the next call.
Return ==
    /\ pc = "done"
    /\ pc' = "idle"
    /\ options' = [type |-> "none"]
    /\ streamHandler' = NoHandler
    /\ validated' = NotValidated
    /\ attempt' = 0
    /\ lastError' = Undefined
    /\ remoteCalls' = <<>>
    /\ logs' = <<>>
    /\ handlerCalls' = <<>>
    /\ sleeps' = <<>>
    /\ outcome' = NoOutcome
    /\ call' = NoCall
    /\ frames' = <<>>
    /\ UNCHANGED <<client, registry, stream, fullResponse, streamEvents>>

\* The generate calls made between registry operations: single-shot.
RegistryRequests ==
    {o \in GenerateRequests :
        /\ o.prompt \in {0, PromptMinLen}
        /\ o.model \in {None, Some("mistral")}
        /\ o.stream = None}

NextRegistry ==
    \/ \E r \in ListOutcomes : ListModels(r)
    \/ \E id \in ModelIds, r \in ShowOutcomes : GetModel(id, r)
    \/ \E id \in ModelIds, r \in ShowOutcomes : GetModelStatus(id, r)
    \/ \E id \in ModelIds, c \in {None} \cup {Some(x) : x \in Configs} : PreloadModel(id, c)
    \/ \E id \in ModelIds : UnloadModel(id)
    \/ \E id \in ModelIds, c \in Configs : UpdateModelConfig(id, c)
    \/ \E r \in ShowOutcomes : PreloadStatus(r)
    \/ \E r \in ShowOutcomes : ApplyModelConfig(r)
    \/ \E r \in TransferOutcomes : PreloadPull(r)
    \/ \E r \in ShowOutcomes : UnloadStatus(r)
    \/ \E r \in TransferOutcomes : UnloadDelete(r)
    \/ UpdateModelCached
    \/ \E r \in ShowOutcomes : UpdateGetModel(r)
    \/ \E r \in ShowOutcomes : UpdateStatus(r)
    \/ \E o \in RegistryRequests : Generate(o, NoHandler)
    \/ \E r \in ShowOutcomes : GenerateGetModel(r)
    \/ \E r \in ShowOutcomes : GenerateModelStatus(r)
    \/ SingleShotSucceeds(TextA)
    \/ \E m \in {MsgRateLimit, MsgModelNotFound} : SingleShotFails(m)
    \/ Sleep
    \/ Terminal
    \/ Return

SpecRegistry == InitRegistry /\ [][NextRegistry]_vars

\* ------------------------------------- applyModelConfig on its own
\* The configurations applyModelConfig is given: each group omitted or given,
\* each field of a given group omitted, at a bound of the schema or beside it.
ParameterGroups ==
    [contextLength : {None, Some(ContextLengthMin - 1), Some(ContextLengthMin),
                      Some(ContextLengthMax)},
     gpuLayers : {None, Some(GpuLayersMin), Some(GpuLayersMin + 1)},
     quantization : {None, Some("4bit")},
     threads : {None, Some(ThreadsMin - 1), Some(ThreadsMin + 1)},
     batchSize : {None},
     modelParams : {None, Some([NoModelParams EXCEPT !.gpu_layers = Some(7)])}]
ResourceGroups ==
    [maxMemory : {None, Some(MaxMemoryMin), Some(MaxMemoryMin + 1)},
     maxGpuMemory : {None},
     cpuCores : {None, Some(CpuCoresMin)}]
PerformanceGroups ==
    [useGpu : {None, Some(FALSE), Some(TRUE)},
     useMetal : {None},
     useTensorCores : {None, Some(FALSE)}]
AllConfigs ==
    [parameters : {None} \cup {Some(g) : g \in ParameterGroups},
     resources : {None} \cup {Some(g) : g \in ResourceGroups},
     performance : {None} \cup {Some(g) : g \in PerformanceGroups}]

InitConfigure ==
    /\ maxRetries = 1
    /\ baseRetryDelay = DefaultBaseRetryDelay
    /\ modelConfigs = [id \in {"llama2"} |-> Descriptor("llama2", "Llama 2", None)]
    /\ modelStatus = [id \in {} |-> 0]
    /\ pc = "configure"
    /\ options = [type |-> "none"]
    /\ streamHandler = NoHandler
    /\ validated = NotValidated
    /\ attempt = 0
    /\ lastError = Undefined
    /\ stream = NoStream
    /\ fullResponse = <<>>
    /\ remoteCalls = <<>>
    /\ logs = <<>>
    /\ streamEvents = <<>>
    /\ handlerCalls = <<>>
    /\ sleeps = <<>>
    /\ outcome = NoOutcome
    /\ call \in {Call("applyModelConfig", "llama2", Some(c)) : c \in AllConfigs}
    /\ frames = <<>>

\* applyModelConfig up to its remote call: the configuration is validated,
\* the flat parameters are built and sent.
BuildModelParams ==
    /\ pc = "configure"
    /\ pc' = "configured"
    /\ IF ConfigSchemaAccepts(Get(call.config))
       THEN /\ remoteCalls' = <<ConfigureCall(call.id, ModelParams(Get(call.config)), None)>>
            /\ UNCHANGED outcome
       ELSE /\ outcome' = Raised(ZodError)
            /\ UNCHANGED remoteCalls
    /\ UNCHANGED <<client, registry, generation, logs, call, frames>>

SpecConfigure == InitConfigure /\ [][BuildModelParams]_vars

\* ------------------------------------------ calls running concurrently
\* Two public calls on one client. Each is a task that runs from one await to
\* the next: a step takes the answer of the task's pending remote call (or
\* the end of its sleep), runs the code that follows and issues the next
\* remote call; the tasks interleave between steps and share the two maps.
ConcurrentRequest ==
    CHOOSE o \in GenerateRequests :
        /\ o.prompt = PromptMinLen
        /\ o.model = None
        /\ o.stream = None

Task(op, id) ==
    [op |-> op, id |-> id, at |-> "start", attempt |-> 0, pending |-> <<>>,
     slept |-> <<>>, outcome |-> NoOutcome]
ConcurrentTasks ==
    {<<Task("generate", DefaultModel), t>> :
        t \in {Task("generate", DefaultModel), Task("unloadModel", DefaultModel)}}

\* The remote calls a task has in flight, and the entry of remoteCalls made
\* when one is answered.
ShowRequest(id, status) == [op |-> "show", model |-> id, status |-> status]
GenerateRequest(id, a) == [op |-> "generate", model |-> id, attempt |-> a]
DeleteRequest(id) == [op |-> "delete", model |-> id]
Answered(i, request, result) ==
    [op |-> request.op, model |-> request.model, task |-> i,
     request |-> request, result |-> result]

InitConcurrent ==
    /\ maxRetries \in 0..MaxRetriesBound
    /\ baseRetryDelay = DefaultBaseRetryDelay
    /\ modelConfigs = [id \in {"llama2"} |-> Descriptor("llama2", "Llama 2", None)]
    /\ modelStatus = [id \in {} |-> 0]
    /\ pc = "tasks"
    /\ options = ConcurrentRequest
    /\ streamHandler = NoHandler
    /\ validated = validateGenerateOptions(ConcurrentRequest)
    /\ attempt = 0
    /\ lastError = Undefined
    /\ stream = NoStream
    /\ fullResponse = <<>>
    /\ remoteCalls = <<>>
    /\ logs = <<>>
    /\ streamEvents = <<>>
    /\ handlerCalls = <<>>
    /\ sleeps = <<>>
    /\ outcome = NoOutcome
    /\ call = NoCall
    /\ frames \in ConcurrentTasks

SetTask(i, t) == [frames EXCEPT ![i] = t]
Finished(t, result) == [t EXCEPT !.at = "done", !.pending = <<>>, !.outcome = result]

\* generate and unloadModel up to the remote call of getModelStatus: generate
\* has validated its options and found the descriptor in the cache;
\* getModelStatus takes the cached status object, or a default one.
TaskStart(i) ==
    /\ pc = "tasks"
    /\ frames[i].at = "start"
    /\ frames[i].op = "generate" => CachedConfig(frames[i].id) # None
    /\ LET t == frames[i]
           status == IF t.id \in DOMAIN modelStatus THEN modelStatus[t.id]
                     ELSE DefaultStatus
       IN frames' = SetTask(i, [t EXCEPT !.at = "status",
                                         !.pending = <<ShowRequest(t.id, status)>>])
    /\ UNCHANGED <<client, registry, pc, generation, remoteCalls, logs, outcome, call>>

\* getModelStatus after its lookup: the status object it took is updated and
\* stored.
TaskStatusAfterShow(status, r) ==
    IF r = None
    THEN [status EXCEPT !.loaded = TRUE, !.status = "ready", !.error = None]
    ELSE [status EXCEPT !.loaded = FALSE, !.status = "error", !.error = r]

\* Mutant: generate goes on whatever the status.
InErrorState_Never(status) == FALSE

\* generate: if (status.status === "error")
InErrorState(status) == status.status = "error"

\* The lookup of getModelStatus is answered. generate raises on a status in
\* error and otherwise enters the retry loop and issues the request of
\* attempt 0; unloadModel returns when the model is not loaded and otherwise
\* issues the delete.
TaskStatusAnswered(i, r) ==
    /\ pc = "tasks"
    /\ frames[i].at = "status"
    /\ LET t == frames[i]
           status == TaskStatusAfterShow(t.pending[1].status, r)
       IN  /\ remoteCalls' = Append(remoteCalls, Answered(i, t.pending[1], r))
           /\ modelStatus' = SetStatus(t.id, status)
           /\ IF t.op = "generate"
              THEN IF InErrorState(status)
                   THEN /\ frames' = SetTask(i, Finished(t,
                                Raised(GenerativeError("Model is in error state",
                                                       "INVALID_MODEL", NoCause, NoContext))))
                        /\ UNCHANGED logs
                   ELSE /\ frames' = SetTask(i, [t EXCEPT
                                !.at = "attempt",
                                !.attempt = 0,
                                !.pending = <<GenerateRequest(t.id, 0)>>])
                        /\ logs' = Append(logs, LogDebug("Starting generation",
                                                         [model |-> t.id,
                                                          stream |-> validated.value.stream]))
              ELSE IF status.loaded
                   THEN /\ frames' = SetTask(i, [t EXCEPT
                                !.at = "delete",
                                !.pending = <<DeleteRequest(t.id)>>])
                        /\ logs' = Append(logs, LogInfo("Unloading model", [modelId |-> t.id]))
                   ELSE /\ frames' = SetTask(i, Finished(t, ReturnedVoid))
                        /\ logs' = Append(logs, LogDebug("Model not loaded", [modelId |-> t.id]))
    /\ UNCHANGED <<client, modelConfigs, pc, generation, outcome, call>>

\* The single-shot request of an attempt is answered: the text is returned,
\* or the loop catch leaves the loop with the classified error or starts the
\* backoff sleep.
TaskGenerateAnswered(i, result) ==
    /\ pc = "tasks"
    /\ frames[i].at = "attempt"
    /\ LET t == frames[i]
           error == Error(result.message)
       IN  /\ remoteCalls' = Append(remoteCalls, Answered(i, t.pending[1], result))
           /\ IF result.type = "text"
              THEN /\ frames' = SetTask(i, Finished(t, Returned(result.text)))
                   /\ logs' = Append(logs, LogInfo("Generation successful", [model |-> t.id]))
              ELSE IF ShouldBreak(error, t.attempt)
              THEN /\ frames' = SetTask(i, Finished(t, Raised(ClassifyError(error))))
                   /\ logs' = Append(logs, LogError("Generation failed", ClassifyError(error),
                                                    [duration |-> TRUE]))
              ELSE /\ frames' = SetTask(i, [t EXCEPT
                            !.at = "sleep",
                            !.pending = <<>>,
                            !.slept = Append(t.slept, RetryDelay(t.attempt))])
                   /\ logs' = Append(logs, LogWarn("Generation failed, will retry",
                                                   [attempt |-> t.attempt,
                                                    delay |-> RetryDelay(t.attempt),
                                                    error |-> ErrorMessage(error)]))
    /\ UNCHANGED <<client, registry, pc, generation, outcome, call>>

\* lastError of a generate call: the failure of its latest answered request.
OwnRequests(i) ==
    SelectSeq(remoteCalls, LAMBDA c : c.task = i /\ c.op = "generate")
LastFailure(i) == Error(OwnRequests(i)[Len(OwnRequests(i))].result.message)

\* Mutant: the attempt counter is one counter of the client.
NextAttempt_Shared(tasks, i) ==
    1 + (CHOOSE a \in {tasks[j].attempt : j \in DOMAIN tasks} :
            \A j \in DOMAIN tasks : tasks[j].attempt <= a)

\* attempt++ of the retry loop, on the counter of the call itself.
NextAttempt(tasks, i) == tasks[i].attempt + 1

\* The backoff sleep of a generate call is over: the loop counts the attempt,
\* and while the loop condition holds the attempt is logged and its request
\* issued; otherwise the loop is left with the last error.
TaskWake(i) ==
    /\ pc = "tasks"
    /\ frames[i].at = "sleep"
    /\ LET t == frames[i]
           a == NextAttempt(frames, i)
           failed == LastFailure(i)
       IN  IF LoopCondition(a)
           THEN /\ frames' = SetTask(i, [t EXCEPT !.at = "attempt",
                                                  !.attempt = a,
                                                  !.pending = <<GenerateRequest(t.id, a)>>])
                /\ logs' = Append(logs, LogInfo("Retrying generation",
                                                [attempt |-> a, model |-> t.id]))
           ELSE /\ frames' = SetTask(i, Finished([t EXCEPT !.attempt = a],
                                                 Raised(ClassifyError(failed))))
                /\ logs' = Append(logs, LogError("Generation failed", ClassifyError(failed),
                                                 [duration |-> TRUE]))
    /\ UNCHANGED <<client, registry, pc, generation, remoteCalls, outcome, call>>

\* The delete of unloadModel is answered: the status is replaced, or the
\* error is wrapped and raised.
TaskDeleteAnswered(i, r) ==
    /\ pc = "tasks"
    /\ frames[i].at = "delete"
    /\ LET t == frames[i]
       IN  /\ remoteCalls' = Append(remoteCalls, Answered(i, t.pending[1], r))
           /\ IF r = None
              THEN /\ modelStatus' = SetStatus(t.id, UnloadedStatus)
                   /\ frames' = SetTask(i, Finished(t, ReturnedVoid))
              ELSE /\ UNCHANGED modelStatus
                   /\ frames' = SetTask(i, Finished(t,
                            Raised(GenerativeError("Failed to unload model",
                                                   "INITIALIZATION_FAILED",
                                                   Error(Get(r)), NoContext))))
    /\ UNCHANGED <<client, modelConfigs, pc, generation, logs, outcome, call>>

TaskAnswers == {TextResult(TextA), ErrorResult(MsgRateLimit), ErrorResult(MsgModelNotFound)}

NextConcurrent ==
    \/ \E i \in 1..2 : TaskStart(i)
    \/ \E i \in 1..2, r \in ShowOutcomes : TaskStatusAnswered(i, r)
    \/ \E i \in 1..2, result \in TaskAnswers : TaskGenerateAnswered(i, result)
    \/ \E i \in 1..2 : TaskWake(i)
    \/ \E i \in 1..2, r \in TransferOutcomes : TaskDeleteAnswered(i, r)

SpecConcurrent == InitConcurrent /\ [][NextConcurrent]_vars

\* ===================================================================
\* The properties
\* ===================================================================
GenerateCallsMade == SelectSeq(remoteCalls, LAMBDA c : c.op = "generate")
NumGenerate == Len(GenerateCallsMade)
WarnLogs == SelectSeq(logs, LAMBDA l : l.level = "warn")
OnTokenCalls == SelectSeq(handlerCalls, LAMBDA c : c.cb = "onToken")
OnCompleteCalls == SelectSeq(handlerCalls, LAMBDA c : c.cb = "onComplete")
OnErrorCalls == SelectSeq(handlerCalls, LAMBDA c : c.cb = "onError")

\* The call got past validation and the model pre-check.
PreCheckPassed ==
    /\ validated.ok
    /\ pc \notin {"idle", "getModel", "getModelStatus"}
    /\ TheModel \in DOMAIN modelConfigs
    /\ TheModel \in DOMAIN modelStatus
    /\ modelStatus[TheModel].status # "error"

\* The messages of the model that contain "rate limit", "network" or
\* "timeout" in that exact case, listed by hand.
RetryableMessages ==
    {MsgRateLimit, MsgNetwork, MsgTimeout, MsgNotFoundTimeout, MsgRateLimitTimeout,
     MsgHandlerTimeout}

RateLimitFailure(c) == c.result.type = "error" /\ Includes(c.result.message, PatRateLimit)

\* C1: a call of generate that passed validation and the model pre-check
\* makes at least one and at most maxRetries + 1 remote generate calls, with
\* attempt indices within 0..maxRetries, whatever the remote answers.
C1_AttemptsBounded ==
    /\ NumGenerate <= maxRetries + 1
    /\ pc \in {"attempt", "streaming", "sleep"} => attempt \in 0..maxRetries
    /\ (pc = "done" /\ PreCheckPassed) => NumGenerate >= 1

C1_Witness ==
    /\ pc = "done"
    /\ PreCheckPassed
    /\ maxRetries = MaxRetriesBound
    /\ NumGenerate = maxRetries + 1

\* C2: when an attempt with index a fails, the loop goes on to another
\* attempt (after the sleep, with index a + 1, issuing one more remote
\* generate call) exactly when the message of the failure contains
\* "rate limit", "network" or "timeout" and a < maxRetries; otherwise the loop
\* is left at that attempt and generate raises the terminal error without
\* another remote call.
C2_RetryIffRetryable ==
    [][/\ (pc \in {"attempt", "streaming"} /\ pc' \notin {"attempt", "streaming"}) =>
           \/ pc' = "done" /\ outcome'.type = "returned"
           \/ /\ pc' = "sleep"
              /\ lastError'.message \in RetryableMessages
              /\ attempt < maxRetries
           \/ /\ pc' = "terminal"
              /\ ~(lastError'.message \in RetryableMessages /\ attempt < maxRetries)
       /\ pc = "sleep" =>
           pc' = "attempt" /\ attempt' = attempt + 1 /\ remoteCalls' = remoteCalls
       /\ pc = "attempt" =>
           Len(remoteCalls') = Len(remoteCalls) + 1 /\ remoteCalls'[Len(remoteCalls')].op = "generate"
       /\ pc = "terminal" =>
           pc' = "done" /\ outcome'.type = "raised" /\ remoteCalls' = remoteCalls]_vars

C2_Witness ==
    /\ pc = "sleep"
    /\ attempt = 1
    /\ lastError.message = MsgTimeout

\* C3: when the first N attempts fail with a message containing "rate limit"
\* and attempt N + 1 answers with a text, that attempt is the last remote
\* call, generate has returned its text, and exactly N warnings were logged,
\* for attempts 0..N-1 with the delays baseRetryDelay * 2^0 ..
\* baseRetryDelay * 2^(N-1) in that order.
C3_RetryThenSuccess ==
    \A j \in 1..NumGenerate :
        (/\ GenerateCallsMade[j].result.type = "text"
         /\ \A i \in 1..(j - 1) : RateLimitFailure(GenerateCallsMade[i]))
        => /\ j = NumGenerate
           /\ pc = "done"
           /\ outcome = Returned(GenerateCallsMade[j].result.text)
           /\ Len(WarnLogs) = j - 1
           /\ \A i \in 1..(j - 1) :
                 /\ WarnLogs[i].ctx.attempt = i - 1
                 /\ WarnLogs[i].ctx.delay = baseRetryDelay * (2 ^ (i - 1))
           /\ sleeps = [i \in 1..(j - 1) |-> baseRetryDelay * (2 ^ (i - 1))]

C3_Witness ==
    /\ pc = "done"
    /\ maxRetries = 2
    /\ NumGenerate = 2
    /\ RateLimitFailure(GenerateCallsMade[1])
    /\ outcome = Returned(TextB)


\* Whether a message contains one of the substrings that make it retryable.
HasRetryPattern(msg) ==
    Includes(msg, PatRateLimit) \/ Includes(msg, PatNetwork) \/ Includes(msg, PatTimeout)

ModelNotFoundFailure(c) ==
    /\ ~c.stream
    /\ c.result.type = "error"
    /\ Includes(c.result.message, PatModelNotFound)

\* What C4 concludes of the attempt with index j - 1: no attempt follows it,
\* no retry is pending, and generate raises INVALID_MODEL.
NoRetryInvalidModel(j) ==
    /\ j = NumGenerate
    /\ pc # "sleep"
    /\ pc = "done" => outcome.type = "raised" /\ outcome.error.code = "INVALID_MODEL"

\* C4 as stated: an attempt of a call with stream = false that fails with a
\* message containing "model not found" is not retried, even when retries
\* remain, and generate raises INVALID_MODEL.
C4_Original ==
    \A j \in 1..NumGenerate :
        (~validated.value.stream /\ ModelNotFoundFailure(GenerateCallsMade[j]))
        => NoRetryInvalidModel(j)

\* C4 as amended: the same, for a message that contains "model not found" and
\* none of "rate limit", "network", "timeout".
C4_ModelNotFoundNotRetried ==
    \A j \in 1..NumGenerate :
        (/\ ~validated.value.stream
         /\ ModelNotFoundFailure(GenerateCallsMade[j])
         /\ ~HasRetryPattern(GenerateCallsMade[j].result.message))
        => NoRetryInvalidModel(j)

C4_Witness ==
    /\ pc = "done"
    /\ maxRetries >= 1
    /\ NumGenerate = 1
    /\ GenerateCallsMade[1].result = ErrorResult(MsgModelNotFound)
    /\ options.stream = Some(FALSE)
    /\ outcome.type = "raised"
    /\ outcome.error.code = "INVALID_MODEL"

\* A raw request that breaks a bound of the schema.
InvalidRequest(o) ==
    \/ o.prompt = 0
    \/ o.prompt > 1000
    \/ o.model = Some("")
    \/ \E t \in o.temperature : t < 0 \/ t > 20
    \/ \E p \in o.topP : p < 0 \/ p > 10

\* C5: a request whose prompt has length 0 or more than 1000, or that breaks
\* another bound, makes generate raise VALIDATION_FAILED with the raw input as
\* context, with no remote call issued and both registry maps as they were.
C5_ValidationFailsClosed ==
    (pc # "idle" /\ InvalidRequest(options))
    => /\ pc = "done"
       /\ outcome.type = "raised"
       /\ outcome.error.code = "VALIDATION_FAILED"
       /\ outcome.error.context = options
       /\ remoteCalls = <<>>
       /\ modelConfigs = [id \in {"llama2"} |-> Descriptor("llama2", "Llama 2", None)]
       /\ DOMAIN modelStatus = {}

C5_Witness ==
    /\ pc = "done"
    /\ options.prompt = PromptMaxLen + 1
    /\ outcome.type = "raised"
    /\ outcome.error.code = "VALIDATION_FAILED"

\* The bounds C6 names: prompt length, temperature and topP.
InStatedBounds(o) ==
    /\ o.prompt >= 1 /\ o.prompt <= 1000
    /\ \A t \in o.temperature : t >= 0 /\ t <= 20
    /\ \A p \in o.topP : p >= 0 /\ p <= 10

\* Validation succeeded, kept every given field and gave every omitted
\* optional field its default.
ValidWithDefaults(o, v) ==
    /\ v.ok
    /\ v.value.prompt = o.prompt
    /\ v.value.model = (IF o.model = None THEN "llama2" ELSE Get(o.model))
    /\ v.value.context = (IF o.context = None THEN <<>> ELSE Get(o.context))
    /\ v.value.temperature = (IF o.temperature = None THEN 7 ELSE Get(o.temperature))
    /\ v.value.topP = (IF o.topP = None THEN 9 ELSE Get(o.topP))
    /\ v.value.stream = (IF o.stream = None THEN FALSE ELSE Get(o.stream))
    /\ v.value.system = o.system

\* C6 as stated: every request with prompt length in 1..1000, temperature in
\* [0,2] and topP in [0,1] passes validation, with the defaults applied.
C6_Original ==
    (pc = "validated" /\ InStatedBounds(options))
    => ValidWithDefaults(options, validated)

\* C6 as amended: the same, for requests whose model, when given, is not the
\* empty string.
C6_ValidWithDefaults ==
    (pc = "validated" /\ InStatedBounds(options) /\ options.model # Some(""))
    => ValidWithDefaults(options, validated)

C6_Witness ==
    /\ pc = "validated"
    /\ options.prompt = PromptMaxLen
    /\ options.temperature = Some(TemperatureMax)
    /\ options.topP = Some(TopPMin)
    /\ options.model = None
    /\ options.stream = None
    /\ validated.ok
    /\ validated.value.model = "llama2"


TokensSeen == [i \in 1..Len(OnTokenCalls) |-> OnTokenCalls[i].arg]

\* A finished streaming call that made one attempt.
OneStreamingAttempt ==
    /\ pc = "done"
    /\ validated.ok
    /\ UseStreaming
    /\ NumGenerate = 1

\* The event sequence of the attempt was consumed to its end without error.
StreamEnded ==
    /\ streamEvents # <<>>
    /\ streamEvents[Len(streamEvents)] = EndEvent

\* Every fragment consumed so far by the only attempt has had its onToken
\* invocation finished: no event is consumed ahead of the callback.
TokensInLockstep ==
    (/\ pc = "streaming"
     /\ NumGenerate = 1
     /\ streamHandler.onToken)
    => TokensSeen = DeliveredParts

\* What C7 concludes, each callback being optional.
StreamedToCompletion ==
    /\ streamHandler.onToken => TokensSeen = DeliveredParts
    /\ streamHandler.onComplete
       => /\ Len(OnCompleteCalls) = 1
          /\ handlerCalls[Len(handlerCalls)].cb = "onComplete"
          /\ OnCompleteCalls[1].arg = Concat(DeliveredParts)
    /\ OnErrorCalls = <<>>
    /\ outcome = Returned(Concat(DeliveredParts))

MatchesNoPattern(msg) ==
    /\ ~Includes(msg, PatRateLimit)
    /\ ~Includes(msg, PatModelNotFound)
    /\ ~Includes(msg, PatNetwork)
    /\ ~Includes(msg, PatTimeout)

\* The error the stream of the only attempt raised: at the opening of the
\* stream, or after the delivered fragments.
StreamRaised(msg) ==
    \/ GenerateCallsMade[1].result = ErrorResult(msg)
    \/ /\ streamEvents # <<>>
       /\ streamEvents[Len(streamEvents)] = ErrorEvent(msg)

\* What C8 concludes, each callback being optional.
StreamFailureReported(msg) ==
    /\ streamHandler.onToken => TokensSeen = DeliveredParts
    /\ streamHandler.onError
       => /\ Len(OnErrorCalls) = 1
          /\ OnErrorCalls[1].arg = Error(msg)
          /\ handlerCalls[Len(handlerCalls)].cb = "onError"
    /\ OnCompleteCalls = <<>>
    /\ outcome.type = "raised"
    /\ outcome.error.code = "STREAM_ERROR"

C9_RetryableContained ==
    pc = "sleep" => (outcome = NoOutcome /\ OnErrorCalls = <<>>)

\* generate finished by raising the classification of a terminal failure.
TerminalFailure ==
    /\ pc = "done"
    /\ outcome.type = "raised"
    /\ lastError.type = "Error"

\* C10 as stated: a terminal failure whose message contains "network" or
\* "timeout" is raised as NETWORK_ERROR.
C10_Original ==
    (/\ TerminalFailure
     /\ Includes(lastError.message, PatNetwork) \/ Includes(lastError.message, PatTimeout))
    => outcome.error.code = "NETWORK_ERROR"

\* C10 as amended: the same, for a message that contains neither "rate limit"
\* nor "model not found".
C10_NetworkError ==
    (/\ TerminalFailure
     /\ Includes(lastError.message, PatNetwork) \/ Includes(lastError.message, PatTimeout)
     /\ ~Includes(lastError.message, PatRateLimit)
     /\ ~Includes(lastError.message, PatModelNotFound))
    => outcome.error.code = "NETWORK_ERROR"

C10_Witness ==
    /\ TerminalFailure
    /\ maxRetries >= 1
    /\ NumGenerate = maxRetries + 1
    /\ lastError.message = MsgTimeout
    /\ outcome.error.code = "NETWORK_ERROR"


\* The call asked for streaming and supplied a handler.
StreamingRequested == options.stream = Some(TRUE) /\ streamHandler.present

\* C11: generate raises STREAM_ERROR only when the streaming path was run
\* (stream = true and a handler supplied) and failed with a message matching
\* no pattern; a single-shot failure matching no pattern is raised as
\* GENERATION_FAILED.
C11_StreamErrorOnlyWhenStreaming ==
    (pc = "done" /\ outcome.type = "raised" /\ lastError.type = "Error")
    => /\ outcome.error.code = "STREAM_ERROR"
          => (StreamingRequested /\ MatchesNoPattern(lastError.message))
       /\ (~StreamingRequested /\ MatchesNoPattern(lastError.message))
          => outcome.error.code = "GENERATION_FAILED"

ShowCallsMade == SelectSeq(remoteCalls, LAMBDA c : c.op = "show")

\* The lookup of getModel answered that the model does not exist.
ModelReportedUnknown ==
    /\ options.model \notin {None, Some("llama2")}
    /\ ShowCallsMade # <<>>
    /\ ShowCallsMade[1].result # None
    /\ Includes(Get(ShowCallsMade[1].result), PatNoSuchModel)

\* The lookup of the status check failed, so the status is "error".
StatusReportedError ==
    LET k == IF options.model \in {None, Some("llama2")} THEN 1 ELSE 2
    IN /\ Len(ShowCallsMade) >= k
       /\ ShowCallsMade[k].result # None

\* C14: when getModel reports the model unknown, or the status check reports
\* "error", generate raises INVALID_MODEL and has issued no remote generation
\* request.
C14_NoGenerateWithoutModel ==
    (pc # "idle" /\ validated.ok /\ (ModelReportedUnknown \/ StatusReportedError))
    => /\ NumGenerate = 0
       /\ pc = "done"
       /\ outcome.type = "raised"
       /\ outcome.error.code = "INVALID_MODEL"

C14_Witness ==
    /\ pc = "done"
    /\ options.model = Some("mistral")
    /\ Len(ShowCallsMade) = 2
    /\ ShowCallsMade[1].result = None
    /\ StatusReportedError
    /\ modelStatus["mistral"].status = "error"
    /\ outcome.type = "raised"
    /\ outcome.error.code = "INVALID_MODEL"

\* Streaming was asked for without a handler, or a handler came without
\* streaming being asked for.
NoStreamingPath ==
    \/ options.stream = Some(TRUE) /\ ~streamHandler.present
    \/ options.stream # Some(TRUE) /\ streamHandler.present

\* C15: with stream = true and no handler, generate runs the single-shot
\* path: the remote is called with stream = false, no callback is invoked and
\* the text of the response is returned; a handler given with stream = false
\* is never invoked.
C15_SingleShotFallback ==
    (pc # "idle" /\ validated.ok /\ NoStreamingPath)
    => /\ handlerCalls = <<>>
       /\ \A i \in 1..NumGenerate :
            /\ ~GenerateCallsMade[i].stream
            /\ GenerateCallsMade[i].result.type \in {"text", "error"}
            /\ GenerateCallsMade[i].result.type = "text"
               => /\ i = NumGenerate
                  /\ pc = "done"
                  /\ outcome = Returned(GenerateCallsMade[i].result.text)

C15_Witness ==
    /\ pc = "done"
    /\ options.stream = Some(TRUE)
    /\ streamHandler = NoHandler
    /\ NumGenerate = 1
    /\ ~GenerateCallsMade[1].stream
    /\ outcome = Returned(TextA)


\* A raw error: one thrown by the remote or by a schema, not a GenerativeError.
IsRawError(e) == "type" \in DOMAIN e /\ e.type \in {"Error", "ZodError"}

\* C12: every failure of a public operation reaches the caller as one
\* GenerativeError whose cause is the original raw error.
C12_WrappedWithCause ==
    (pc = "done" /\ outcome.type = "raised")
    => /\ IsGenerativeError(outcome.error)
       /\ IsRawError(outcome.error.cause)

ErrorLogs == SelectSeq(logs, LAMBDA l : l.level = "error")

\* C13: every terminal error raised by a public operation has been logged
\* exactly once at error level, with the duration as context.
C13_TerminalErrorLoggedOnce ==
    (pc = "done" /\ outcome.type = "raised")
    => /\ Len(ErrorLogs) = 1
       /\ ErrorLogs[1].error = outcome.error
       /\ "duration" \in DOMAIN ErrorLogs[1].ctx

\* The step is a whole call of the operation op, from idle to its result.
WholeCall(op) == pc = "idle" /\ pc' = "done" /\ call'.op = op

\* C16: listModels returns one descriptor per entry of the listing, in
\* order, the cached one when the name is cached and a default one
\* otherwise; afterwards every listed name is cached, and no entry cached
\* before has been removed or replaced.
C16_ListModelsAdditive ==
    [][(WholeCall("listModels") /\ remoteCalls'[1].result.type = "listing")
       => LET names == remoteCalls'[1].result.names
          IN /\ outcome'.type = "returned"
             /\ Len(outcome'.value) = Len(names)
             /\ \A i \in 1..Len(names) :
                  /\ outcome'.value[i] =
                       (IF names[i] \in DOMAIN modelConfigs
                        THEN modelConfigs[names[i]]
                        ELSE [id |-> names[i], name |-> names[i], provider |-> "ollama",
                              capabilities |-> DefaultCapabilities,
                              config |-> None, customConfig |-> None])
                  /\ names[i] \in DOMAIN modelConfigs'
                  /\ modelConfigs'[names[i]] = outcome'.value[i]
             /\ \A id \in DOMAIN modelConfigs :
                  id \in DOMAIN modelConfigs' /\ modelConfigs'[id] = modelConfigs[id]
             /\ DOMAIN modelConfigs' =
                  DOMAIN modelConfigs \cup {names[i] : i \in 1..Len(names)}]_vars

C16_Witness ==
    /\ pc = "done"
    /\ call.op = "listModels"
    /\ remoteCalls[1].result.type = "listing"
    /\ remoteCalls[1].result.names = <<"mistral", "llama2">>
    /\ outcome.value[1].config = None
    /\ outcome.value[1].name = "mistral"
    /\ outcome.value[2].name = "Llama 2"
    /\ outcome.value[2].customConfig = Some(ConfigContext)

\* C17: the descriptor cache always holds "llama2", and no step of any
\* operation, successful or failing, removes an identifier from it.
C17_DescriptorsNeverRemoved ==
    /\ "llama2" \in DOMAIN modelConfigs
    /\ [][/\ DOMAIN modelConfigs \subseteq DOMAIN modelConfigs'
          /\ "llama2" \in DOMAIN modelConfigs']_vars

C17_Witness ==
    /\ pc = "done"
    /\ call.op = "unloadModel"
    /\ call.id = "mistral"
    /\ outcome = ReturnedVoid
    /\ Len(remoteCalls) = 2
    /\ remoteCalls[2] = DeleteCall("mistral", None)
    /\ DOMAIN modelConfigs = {"llama2", "mistral"}

\* C18: getModel of a cached id returns the cached descriptor, issues no
\* remote call and changes neither registry map, whatever the status of the
\* model.
C18_GetModelCached ==
    [][(WholeCall("getModel") /\ call'.id \in DOMAIN modelConfigs)
       => /\ outcome' = ReturnedValue(modelConfigs[call'.id])
          /\ remoteCalls' = <<>>
          /\ modelConfigs' = modelConfigs
          /\ modelStatus' = modelStatus]_vars

C18_Witness ==
    /\ pc = "done"
    /\ call.op = "getModel"
    /\ call.id = "mistral"
    /\ remoteCalls = <<>>
    /\ "mistral" \in DOMAIN modelStatus
    /\ modelStatus["mistral"] = UnloadedStatus
    /\ outcome = ReturnedValue(modelConfigs["mistral"])

\* C19: getModel of an uncached id looks the model up once; it returns null
\* and caches nothing when the remote says the model does not exist, raises
\* INVALID_MODEL and caches nothing on another failure, and on success
\* returns a descriptor and caches it under the id.
C19_GetModelUncached ==
    [][(WholeCall("getModel") /\ call'.id \notin DOMAIN modelConfigs)
       => LET id == call'.id
              r == remoteCalls'[1].result
          IN /\ Len(remoteCalls') = 1
             /\ remoteCalls'[1].op = "show"
             /\ remoteCalls'[1].model = id
             /\ modelStatus' = modelStatus
             /\ r = None
                => /\ outcome'.type = "returned"
                   /\ outcome'.value.id = id
                   /\ DOMAIN modelConfigs' = DOMAIN modelConfigs \cup {id}
                   /\ modelConfigs'[id] = outcome'.value
                   /\ \A m \in DOMAIN modelConfigs : modelConfigs'[m] = modelConfigs[m]
             /\ (r # None /\ Includes(Get(r), PatNoSuchModel))
                => /\ outcome' = ReturnedValue(Null)
                   /\ modelConfigs' = modelConfigs
             /\ (r # None /\ ~Includes(Get(r), PatNoSuchModel))
                => /\ outcome'.type = "raised"
                   /\ outcome'.error.code = "INVALID_MODEL"
                   /\ modelConfigs' = modelConfigs]_vars

C19_Witness ==
    /\ pc = "done"
    /\ call.op = "getModel"
    /\ call.id = "mistral"
    /\ remoteCalls = <<ShowCall("mistral", Some(MsgNoSuchModel))>>
    /\ outcome = ReturnedValue(Null)
    /\ "mistral" \notin DOMAIN modelConfigs

\* C20: getModelStatus looks the model up once, for cached and uncached ids
\* alike; it returns loaded = true, status "ready" when the lookup succeeds
\* and loaded = false, status "error" with the failure message when it
\* fails, and the cached status of the id is then the value returned.
C20_StatusFromLookup ==
    [][WholeCall("getModelStatus")
       => LET id == call'.id
              r == remoteCalls'[1].result
          IN /\ Len(remoteCalls') = 1
             /\ remoteCalls'[1].op = "show"
             /\ remoteCalls'[1].model = id
             /\ outcome'.type = "returned"
             /\ r = None
                => /\ outcome'.value.loaded
                   /\ outcome'.value.status = "ready"
             /\ r # None
                => /\ ~outcome'.value.loaded
                   /\ outcome'.value.status = "error"
                   /\ outcome'.value.error = r
             /\ id \in DOMAIN modelStatus'
             /\ modelStatus'[id] = outcome'.value]_vars

C20_Witness ==
    /\ pc = "done"
    /\ call.op = "getModelStatus"
    /\ call.id = "mistral"
    /\ "mistral" \notin DOMAIN modelConfigs
    /\ remoteCalls = <<ShowCall("mistral", Some(MsgRefused))>>
    /\ outcome.value.status = "error"
    /\ outcome.value.error = Some(MsgRefused)
    /\ modelStatus["mistral"] = outcome.value

\* ---------------------------------------------------------- C21 .. C30
\* A public registry operation is under way or has just finished.
TopLevel(op) == pc \in {"registry", "done"} /\ call.op = op

\* The status check that opens preloadModel and unloadModel answered, and
\* reported the model loaded or not.
StatusChecked == remoteCalls # <<>> /\ remoteCalls[1].op = "show"
CheckedLoaded == StatusChecked /\ remoteCalls[1].result = None
CheckedNotLoaded == StatusChecked /\ remoteCalls[1].result # None

ReturnedNormally == pc = "done" /\ outcome = ReturnedVoid
RaisedError == pc = "done" /\ outcome.type = "raised"

\* The positions in remoteCalls of the calls of one remote operation.
CallsOf(op) == {i \in DOMAIN remoteCalls : remoteCalls[i].op = op}

\* C21: preloadModel on a model the status check reports loaded, given a
\* configuration, goes through updateModelConfig and not through a pull of its
\* own, and when it returns the cached status of the model has loaded = true.
C21_ReconfiguredStaysLoaded ==
    (TopLevel("preloadModel") /\ call.config # None /\ CheckedLoaded /\ ReturnedNormally)
        => /\ Len(remoteCalls) >= 2
           /\ remoteCalls[2].op = "show"
           /\ modelStatus[call.id].loaded

\* The step in which the status check that opens the public operation op
\* answers with result r.
FirstCheck(op, r) ==
    /\ pc = "registry"
    /\ call.op = op
    /\ remoteCalls = <<>>
    /\ remoteCalls' = <<ShowCall(call.id, r)>>

\* C22: preloadModel without a configuration, on a model its status check
\* reports loaded, returns at once: the status check is the call's only
\* remote call (no pull, no delete), the descriptor cache is unchanged and
\* the cached status is loaded = true, status = "ready".
C22_LoadedPreloadReturns ==
    [][(FirstCheck("preloadModel", None) /\ call.config = None)
        => /\ pc' = "done"
           /\ outcome' = ReturnedVoid
           /\ modelConfigs' = modelConfigs
           /\ modelStatus'[call.id].loaded
           /\ modelStatus'[call.id].status = "ready"]_vars
C22_Witness ==
    /\ TopLevel("preloadModel")
    /\ call.config = None
    /\ CheckedLoaded
    /\ ReturnedNormally
    /\ Len(remoteCalls) = 1

\* The position of the pull among the remote calls of a preloadModel call
\* on a model that is not loaded: after the status check, and after the
\* configuration when one is given.
PullPosition == IF call.config = None THEN 2 ELSE 3

\* C23: preloadModel on a model its status check reports not loaded makes
\* its remote calls in the order configuration (only when one is given),
\* pull; the status is written after the pull, so the cached status has
\* loaded = true exactly when the pull succeeded; the call returns normally
\* exactly then, with loaded = true and status = "ready"; when the
\* configuration or the pull fails it raises and loaded = true is not written.
C23_PreloadInOrder ==
    (TopLevel("preloadModel") /\ CheckedNotLoaded)
        => LET n == Len(remoteCalls)
               pulled == n = PullPosition /\ remoteCalls[n].result = None
           IN  /\ n <= PullPosition
               /\ (call.config # None /\ n >= 2)
                    => /\ ConfigSchemaAccepts(Get(call.config))
                       /\ remoteCalls[2].op = "show"
                       /\ remoteCalls[2].params = ModelParams(Get(call.config))
               /\ n = PullPosition
                    => /\ remoteCalls[n].op = "pull"
                       /\ \A i \in 2..(n - 1) : remoteCalls[i].result = None
               /\ modelStatus[call.id].loaded <=> pulled
               /\ pulled => ReturnedNormally /\ modelStatus[call.id].status = "ready"
               /\ pc = "done" => (ReturnedNormally <=> pulled)
               /\ (\E i \in 2..n : remoteCalls[i].result # None) => RaisedError
               /\ pc = "done" => ReturnedNormally \/ RaisedError
C23_Witness ==
    /\ TopLevel("preloadModel")
    /\ CheckedNotLoaded
    /\ call.config # None
    /\ ReturnedNormally
    /\ Len(remoteCalls) = 3
    /\ modelStatus[call.id] = LoadedStatus

\* The remote calls and the cached status of an unloadModel call: no delete
\* after a status check that reports the model not loaded; otherwise one
\* delete, after which the call is over, with loaded = false and
\* status = "ready" when the delete succeeded, and an error raised and
\* loaded = true kept when it failed.
UnloadOutcome ==
    (TopLevel("unloadModel") /\ StatusChecked)
        => LET n == Len(remoteCalls)
               status == modelStatus[call.id]
           IN  /\ CheckedNotLoaded
                    => /\ n = 1
                       /\ ReturnedNormally
                       /\ ~status.loaded
               /\ CheckedLoaded
                    => /\ n <= 2
                       /\ n = 1 => pc = "registry" /\ status.loaded
                       /\ n = 2 => /\ remoteCalls[2].op = "delete"
                                   /\ pc = "done"
                                   /\ remoteCalls[2].result = None
                                        => /\ ReturnedNormally
                                           /\ ~status.loaded
                                           /\ status.status = "ready"
                                   /\ remoteCalls[2].result # None
                                        => RaisedError /\ status.loaded

\* The status check of an unloadModel call reports the model not loaded.
UnloadNotLoaded ==
    \E r \in ShowOutcomes : r # None /\ FirstCheck("unloadModel", r)

\* C24 as stated: on a model that is not loaded unloadModel changes no cached
\* state.
C24_Original ==
    /\ []UnloadOutcome
    /\ [][UnloadNotLoaded => UNCHANGED registry]_vars

\* C24: unloadModel on a model its status check reports not loaded issues no
\* remote delete and leaves the descriptor cache unchanged, the status cache
\* holding what the status check found (loaded = false, status = "error");
\* on a loaded model it issues exactly one delete and leaves loaded = false,
\* status = "ready" when the delete succeeds; when the delete fails it raises
\* and the cached status keeps loaded = true.
C24_UnloadModel ==
    /\ []UnloadOutcome
    /\ [][UnloadNotLoaded
            => /\ modelConfigs' = modelConfigs
               /\ modelStatus' = SetStatus(call.id, modelStatus'[call.id])
               /\ ~modelStatus'[call.id].loaded
               /\ modelStatus'[call.id].status = "error"]_vars
C24_Witness ==
    /\ TopLevel("unloadModel")
    /\ CheckedLoaded
    /\ Len(remoteCalls) = 2
    /\ ReturnedNormally
    /\ modelStatus[call.id] = UnloadedStatus

\* The lookup that getModel makes for updateModelConfig on an id that is not
\* cached reports the model unknown.
UpdateUnknownModel ==
    \E r \in ShowOutcomes : GetModelNull(r) /\ FirstCheck("updateModelConfig", r)

\* C25: updateModelConfig on an id that getModel reports unknown raises
\* INVALID_MODEL with that lookup as the call's only remote call: no
\* configuration is sent, nothing is pulled or deleted, and the descriptor
\* cache is unchanged.
C25_UnknownModelRejected ==
    [][UpdateUnknownModel
        => /\ pc' = "done"
           /\ outcome'.type = "raised"
           /\ IsGenerativeError(outcome'.error)
           /\ outcome'.error.code = "INVALID_MODEL"
           /\ modelConfigs' = modelConfigs]_vars
C25_Witness ==
    /\ TopLevel("updateModelConfig")
    /\ call.id \notin DOMAIN modelConfigs
    /\ remoteCalls = <<ShowCall(call.id, Some(MsgNoSuchModel))>>
    /\ RaisedError
    /\ outcome.error.code = "INVALID_MODEL"

\* The positions in remoteCalls at which a configuration was sent, and the
\* position of the call that follows the first of them: the status check of
\* updateModelConfig.
ConfigureCalls == {i \in DOMAIN remoteCalls : "params" \in DOMAIN remoteCalls[i]}
UpdateCheck ==
    (CHOOSE i \in ConfigureCalls : \A j \in ConfigureCalls : i <= j) + 1
UpdateChecked(loaded) ==
    /\ TopLevel("updateModelConfig")
    /\ ConfigureCalls # {}
    /\ UpdateCheck \in DOMAIN remoteCalls
    /\ (remoteCalls[UpdateCheck].result = None) = loaded

\* No remote call of the call under way has failed.
NoRemoteFailure == \A i \in DOMAIN remoteCalls : remoteCalls[i].result = None

\* C26: updateModelConfig on a model its status check reports loaded sends
\* the configuration, then unloads the model with a remote delete, then
\* preloads it with the new configuration: with no remote call failing, the
\* delete is followed by the status check of preloadModel, the configuration
\* and the pull, in that order, and the call returns normally with the cached
\* status loaded = true; on a model reported not loaded it neither deletes
\* nor pulls.
C26_ReloadAfterUpdate ==
    /\ (UpdateChecked(TRUE) /\ NoRemoteFailure)
        => /\ \A d \in CallsOf("delete") :
                (d + 3) \in DOMAIN remoteCalls => remoteCalls[d + 3].op = "pull"
           /\ ReturnedNormally
                => /\ \E d \in CallsOf("delete"), p \in CallsOf("pull") :
                        UpdateCheck < d /\ d < p
                   /\ modelStatus[call.id].loaded
    /\ UpdateChecked(FALSE)
        => CallsOf("delete") = {} /\ CallsOf("pull") = {}

\* C27: updateModelConfig or preloadModel given a configuration the schema
\* rejects fails with a GenerativeError of kind VALIDATION_FAILED, before any
\* remote call.
C27_InvalidConfigRejected ==
    (/\ pc = "done"
     /\ call.op \in {"updateModelConfig", "preloadModel"}
     /\ call.config # None
     /\ ~ConfigSchemaAccepts(Get(call.config)))
        => /\ RaisedError
           /\ IsGenerativeError(outcome.error)
           /\ outcome.error.code = "VALIDATION_FAILED"
           /\ remoteCalls = <<>>

\* The step in which applyModelConfig has its configuration accepted by the
\* remote, for a model whose descriptor records an earlier configuration.
Reconfigured ==
    /\ pc = "registry"
    /\ frames # <<>>
    /\ Top.at = "apply"
    /\ Len(remoteCalls') = Len(remoteCalls) + 1
    /\ remoteCalls'[Len(remoteCalls')].result = None
    /\ Top.id \in DOMAIN modelConfigs
    /\ modelConfigs[Top.id].customConfig # None

ConfigGroups == {"parameters", "resources", "performance"}

\* C28: a configuration B applied after a configuration A leaves every group
\* that A gave and B omits as A recorded it in the model's descriptor.
C28_OmittedGroupsKept ==
    [][Reconfigured
        => LET A == Get(modelConfigs[Top.id].customConfig)
               B == Get(Top.config)
               recorded == modelConfigs'[Top.id].customConfig
           IN  \A g \in ConfigGroups :
                    (A[g] # None /\ B[g] = None)
                        => recorded # None /\ Get(recorded)[g] = A[g]]_vars

\* The groups of the configuration applyModelConfig was given, a group
\* omitted counting as a group with every field omitted.
GivenParameters ==
    IF Get(call.config).parameters = None THEN NoParameters
    ELSE Get(Get(call.config).parameters)
GivenResources ==
    IF Get(call.config).resources = None THEN NoResources
    ELSE Get(Get(call.config).resources)
GivenPerformance ==
    IF Get(call.config).performance = None THEN NoPerformance
    ELSE Get(Get(call.config).performance)

\* C29: for every valid configuration (without free-form modelParams) the
\* flat parameters sent hold, for each field given, the renamed key with the
\* value given, 0 and false included, and no renamed key for a field omitted.
C29_EveryFieldSent ==
    (/\ pc = "configured"
     /\ ConfigSchemaAccepts(Get(call.config))
     /\ GivenParameters.modelParams = None)
        => LET sent == remoteCalls[1].params
           IN  /\ sent.context_length = GivenParameters.contextLength
               /\ sent.gpu_layers = GivenParameters.gpuLayers
               /\ sent.quantization = GivenParameters.quantization
               /\ sent.num_threads = GivenParameters.threads
               /\ sent.batch_size = GivenParameters.batchSize
               /\ sent.max_memory = GivenResources.maxMemory
               /\ sent.max_gpu_memory = GivenResources.maxGpuMemory
               /\ sent.num_cpu = GivenResources.cpuCores
               /\ sent.use_gpu = GivenPerformance.useGpu
               /\ sent.use_metal = GivenPerformance.useMetal
               /\ sent.use_tensor_cores = GivenPerformance.useTensorCores

\* C30: within one generate call the sleeps so far are baseRetryDelay * 2^0,
\* baseRetryDelay * 2^1, ... in that order, one for each attempt that failed
\* and is retried: none before attempt 0, one between attempt a and attempt
\* a + 1, of baseRetryDelay * 2^a, and none after the attempt that succeeds
\* or fails for good, so that a finished call slept once less than it made
\* attempts.
C30_SleepsBetweenAttempts ==
    /\ sleeps = [i \in 1..Len(sleeps) |-> baseRetryDelay * (2 ^ (i - 1))]
    /\ Len(sleeps) = IF pc = "sleep" THEN attempt + 1 ELSE attempt
    /\ Len(sleeps) <= NumGenerate
    /\ (pc \in {"terminal", "done"} /\ NumGenerate > 0) => Len(sleeps) = NumGenerate - 1
C30_Witness ==
    /\ pc = "done"
    /\ outcome.type = "raised"
    /\ NumGenerate = 3
    /\ sleeps = <<baseRetryDelay, 2 * baseRetryDelay>>

\* ---------------------------------------------------------- C31 .. C40
RetryLogs == SelectSeq(logs, LAMBDA l : l.level = "info" /\ l.message = "Retrying generation")

\* The step in which the retry loop catches the failure of an attempt.
FailureCaught == pc \in {"attempt", "streaming"} /\ pc' \in {"sleep", "terminal"}

\* One warning entry more, carrying the attempt, the delay and the text of
\* the failure just caught.
WarningAdded ==
    /\ Len(WarnLogs') = Len(WarnLogs) + 1
    /\ WarnLogs'[Len(WarnLogs')].ctx =
            [attempt |-> attempt,
             delay |-> baseRetryDelay * (2 ^ attempt),
             error |-> lastError'.message]

\* One retry entry, with the attempt index and the model id, precedes each
\* attempt with index 1 or more, and none precedes attempt 0.
RetryEntries ==
    /\ NumGenerate = 0 => RetryLogs = <<>>
    /\ NumGenerate > 0 =>
        RetryLogs = [i \in 1..(NumGenerate - 1) |->
                        LogInfo("Retrying generation",
                                [attempt |-> i, model |-> TheModel])]

\* C31 as stated: a warning is logged on each failure with a retryable
\* message.
C31_Original ==
    /\ []RetryEntries
    /\ [][FailureCaught =>
            IF lastError'.message \in RetryableMessages
            THEN WarningAdded
            ELSE WarnLogs' = WarnLogs]_vars

\* C31: in every generate call a warning entry (attempt, computed delay,
\* failure text) is logged on each failure that is retried, that is on each
\* failure with a retryable message at an attempt before the last, so the
\* warnings are as many as the backoff sleeps; and one info entry (attempt
\* index, model id) is logged before each attempt with index 1 or more.
C31_WarningPerRetry ==
    /\ [](RetryEntries /\ Len(WarnLogs) = Len(sleeps))
    /\ [][FailureCaught =>
            IF lastError'.message \in RetryableMessages /\ attempt < maxRetries
            THEN WarningAdded
            ELSE WarnLogs' = WarnLogs]_vars
C31_Witness ==
    /\ TerminalFailure
    /\ maxRetries = 2
    /\ NumGenerate = 3
    /\ Len(RetryLogs) = 2
    /\ Len(WarnLogs) = 2
    /\ lastError.message \in RetryableMessages

\* An activation of updateModelConfig is under way inside another one for
\* the same model and configuration.
UpdateReentered ==
    \E i, j \in DOMAIN frames :
        /\ i < j
        /\ frames[i].op = "updateModelConfig"
        /\ frames[j].op = "updateModelConfig"
        /\ frames[i].id = frames[j].id
        /\ frames[i].config = frames[j].config

\* C33: an updateModelConfig or preloadModel call with a configuration, on a
\* loaded model, comes to an end after finitely many remote calls: with every
\* remote call answering, the delegation preloadModel -> updateModelConfig ->
\* unloadModel + preloadModel never brings updateModelConfig back into itself
\* with the arguments it already has.
C33_DelegationEnds ==
    (/\ pc = "registry"
     /\ call.op \in {"updateModelConfig", "preloadModel"}
     /\ NoRemoteFailure)
        => ~UpdateReentered

\* C34: in one streaming generate call the handler is told the end once:
\* onComplete is invoked at most once and only in a call that returns
\* normally, onError at most once and only in a call that raises, and never
\* both in the same call.
C34_OneTerminalNotification ==
    /\ Len(OnCompleteCalls) <= 1
    /\ Len(OnErrorCalls) <= 1
    /\ OnCompleteCalls = <<>> \/ OnErrorCalls = <<>>
    /\ pc = "done" =>
        /\ OnCompleteCalls # <<>> => outcome.type = "returned"
        /\ OnErrorCalls # <<>> => outcome.type = "raised"

\* C35: the accumulator of a streaming attempt holds the fragments of that
\* attempt alone, so the text a streaming call returns, and the text its
\* onComplete is given, is the concatenation of the fragments of the attempt
\* that succeeded: fragments handed to onToken by earlier, failed attempts
\* are not in it.
C35_FinalAttemptOnly ==
    /\ pc = "streaming" => fullResponse = Concat(DeliveredParts)
    /\ (/\ pc = "done"
        /\ validated.ok
        /\ UseStreaming
        /\ outcome.type = "returned")
        => /\ outcome = Returned(Concat(DeliveredParts))
           /\ streamHandler.onComplete
                => OnCompleteCalls[Len(OnCompleteCalls)].arg = Concat(DeliveredParts)
C35_Witness ==
    /\ pc = "done"
    /\ outcome.type = "returned"
    /\ validated.ok
    /\ UseStreaming
    /\ NumGenerate >= 2
    /\ DeliveredParts # <<>>
    /\ Len(OnTokenCalls) > Len(DeliveredParts)
    /\ OnCompleteCalls # <<>>

\* C36: every entry of the status cache has status "ready" or "error" (the
\* default "loading" is never stored); an entry with status "error" has
\* loaded = false and an error text; an entry with loaded = true has status
\* "ready" and no error text.
C36_StatusCacheWellFormed ==
    \A id \in DOMAIN modelStatus :
        LET status == modelStatus[id]
        IN  /\ status.status \in {"ready", "error"}
            /\ status.status = "error" => ~status.loaded /\ status.error # None
            /\ status.loaded => status.status = "ready" /\ status.error = None
C36_Witness ==
    /\ pc = "idle"
    /\ \E id \in DOMAIN modelStatus :
            modelStatus[id].status = "error" /\ modelStatus[id].lastUsed
    /\ \E id \in DOMAIN modelStatus :
            modelStatus[id].loaded /\ ~modelStatus[id].lastUsed

\* The last remote generation request of the call failed with message msg.
LastAttemptFailedWith(msg) ==
    /\ NumGenerate > 0
    /\ GenerateCallsMade[NumGenerate].result = ErrorResult(msg)

\* C37: generate raises RATE_LIMIT_EXCEEDED or NETWORK_ERROR only after
\* exactly maxRetries + 1 generation attempts, and the error classified, kept
\* as the cause, is the error of the last attempt: on the single-shot path
\* the failure of the last remote request, whatever earlier attempts failed
\* with.
C37_LastAttemptClassified ==
    (/\ pc = "done"
     /\ outcome.type = "raised"
     /\ outcome.error.code \in {"RATE_LIMIT_EXCEEDED", "NETWORK_ERROR"})
        => /\ NumGenerate = maxRetries + 1
           /\ outcome.error.cause = lastError
           /\ Includes(lastError.message, PatRateLimit)
                <=> outcome.error.code = "RATE_LIMIT_EXCEEDED"
           /\ ~UseStreaming => LastAttemptFailedWith(lastError.message)
C37_Witness ==
    /\ pc = "done"
    /\ outcome.type = "raised"
    /\ outcome.error.code = "RATE_LIMIT_EXCEEDED"
    /\ maxRetries = 2
    /\ NumGenerate = 3
    /\ ~UseStreaming
    /\ GenerateCallsMade[1].result = ErrorResult(MsgTimeout)
    /\ GenerateCallsMade[3].result = ErrorResult(MsgRateLimit)

\* C38: getModelStatus(id) called when the cached status of id is the one a
\* successful unloadModel recorded returns loaded = false, status = "ready";
\* called when it is the one a successful preloadModel recorded, and the
\* remote answers the lookup, it returns loaded = true, status = "ready".
C38_StatusAfterLifecycle ==
    [][(WholeCall("getModelStatus") /\ call'.id \in DOMAIN modelStatus)
        => LET recorded == modelStatus[call'.id]
               returned == outcome'.value
           IN  /\ recorded = UnloadedStatus
                    => ~returned.loaded /\ returned.status = "ready"
               /\ (recorded = LoadedStatus /\ remoteCalls'[1].result = None)
                    => returned.loaded /\ returned.status = "ready"]_vars

\* The step in which the remote answers the configuration sent by
\* applyModelConfig with result r.
ApplyAnswered(r) ==
    /\ pc = "registry"
    /\ frames # <<>>
    /\ Top.at = "apply"
    /\ remoteCalls' = Append(remoteCalls,
                             ConfigureCall(Top.id, ModelParams(Get(Top.config)), r))

\* Error e is the error applyModelConfig raises, or has it as its cause at
\* some depth.
RECURSIVE RaisedByApply(_)
RaisedByApply(e) ==
    /\ IsGenerativeError(e)
    /\ \/ /\ e.message = "Failed to apply model configuration"
          /\ e.code = "INITIALIZATION_FAILED"
       \/ RaisedByApply(e.cause)

\* C40: when the remote call of applyModelConfig fails, applyModelConfig
\* raises INITIALIZATION_FAILED and the descriptor cache is unchanged, the
\* recorded custom configuration included; the custom configuration of a
\* descriptor changes only in the step in which that call succeeds, and only
\* for a model that has a descriptor already: none is created.
C40_ConfigRecordedOnSuccess ==
    [][/\ \A r \in ShowOutcomes :
            ApplyAnswered(r) =>
                IF r # None
                THEN /\ modelConfigs' = modelConfigs
                     /\ pc' = "done"
                     /\ outcome'.type = "raised"
                     /\ outcome'.error.code = "INITIALIZATION_FAILED"
                     /\ RaisedByApply(outcome'.error)
                ELSE /\ DOMAIN modelConfigs' = DOMAIN modelConfigs
                     /\ Top.id \in DOMAIN modelConfigs
                            => modelConfigs'[Top.id].customConfig = Top.config
       /\ \A id \in DOMAIN modelConfigs :
            modelConfigs'[id].customConfig # modelConfigs[id].customConfig
                => ApplyAnswered(None) /\ id = Top.id]_vars
C40_Witness ==
    /\ pc = "done"
    /\ outcome.type = "raised"
    /\ RaisedByApply(outcome.error)
    /\ call.id \in DOMAIN modelConfigs
    /\ modelConfigs[call.id].customConfig # None
    /\ call.config # Some(Get(modelConfigs[call.id].customConfig))

\* ------------------------------------------ calls running concurrently
GenerateTasks == {i \in DOMAIN frames : frames[i].op = "generate"}

\* C32: the attempts of one generate call are strictly sequential, also when
\* another call runs on the same client. The call has at most one generation
\* request in flight; its answered requests carry the attempt indices 0, 1,
\* ... in order and all but the latest failed; the request of attempt a is
\* in flight only after a failures and a backoff sleeps of the call itself,
\* so the counter of a call counts its own attempts only.
C32_AttemptsSequential ==
    pc = "tasks" =>
        \A i \in GenerateTasks :
            LET t == frames[i]
                own == OwnRequests(i)
            IN  /\ Len(t.pending) <= 1
                /\ \A k \in 1..Len(own) :
                        /\ own[k].request.attempt = k - 1
                        /\ k < Len(own) => own[k].result.type = "error"
                /\ \A k \in 1..Len(t.slept) : t.slept[k] = RetryDelay(k - 1)
                /\ t.at \in {"start", "status"} => own = <<>>
                /\ t.at = "attempt" =>
                        /\ t.pending = <<GenerateRequest(t.id, t.attempt)>>
                        /\ Len(own) = t.attempt
                        /\ Len(t.slept) = t.attempt
                /\ t.at = "sleep" =>
                        /\ t.pending = <<>>
                        /\ Len(own) = t.attempt + 1
                        /\ own[Len(own)].result.type = "error"
                        /\ Len(t.slept) = t.attempt + 1
                /\ t.at = "done" =>
                        /\ t.pending = <<>>
                        /\ Len(own) <= maxRetries + 1
                        /\ Len(t.slept) \in {Len(own) - 1, Len(own)} \cap Nat

\* Two generate calls are in the retry loop at different attempts: the first
\* has its request of attempt 1 in flight after one failure and one sleep,
\* the second started later and is at attempt 0.
C32_Witness ==
    /\ pc = "tasks"
    /\ GenerateTasks = {1, 2}
    /\ frames[1].at = "attempt"
    /\ frames[1].attempt = 1
    /\ frames[2].at = "attempt"
    /\ frames[2].attempt = 0
    /\ \E k \in 1..Len(remoteCalls) :
            remoteCalls[k].task = 2 /\ remoteCalls[k].op = "show"

\* A generate call puts a generation request in flight in this step.
IssuesRequest(i) ==
    /\ frames'[i].pending # frames[i].pending
    /\ frames'[i].pending # <<>>
    /\ frames'[i].pending[1].op = "generate"

CachedLoaded(status, id) ==
    /\ id \in DOMAIN status
    /\ status[id].loaded
    /\ status[id].status # "error"

\* C39 as stated: with unloadModel running concurrently for the same model,
\* every generation request is issued while the cached status of the model
\* is loaded and not in error.
C39_Original ==
    [][\A i \in GenerateTasks :
            IssuesRequest(i) => CachedLoaded(modelStatus', frames[i].id)]_vars

\* C39: a generate call checks the status once, before the retry loop. Each
\* of its generation requests is issued after its own status lookup
\* succeeded, and the request of attempt 0 is issued in the step that stored
\* that status, with the cached status loaded and ready; the requests of the
\* later attempts are issued whatever a concurrent call has made of the
\* cached status since.
C39_CheckedBeforeLoopOnly ==
    [][\A i \in GenerateTasks :
            IssuesRequest(i) =>
                /\ \E k \in 1..Len(remoteCalls') :
                        /\ remoteCalls'[k].task = i
                        /\ remoteCalls'[k].op = "show"
                        /\ remoteCalls'[k].result = None
                /\ frames'[i].attempt = 0 =>
                        /\ CachedLoaded(modelStatus', frames[i].id)
                        /\ modelStatus'[frames[i].id].status = "ready"]_vars

\* generate has the request of attempt 1 in flight for a model that the
\* concurrent unloadModel has unloaded after generate's status check.
C39_Witness ==
    /\ pc = "tasks"
    /\ frames[1].op = "generate"
    /\ frames[1].at = "attempt"
    /\ frames[1].attempt = 1
    /\ frames[2].op = "unloadModel"
    /\ frames[2].outcome = ReturnedVoid
    /\ \E k \in 1..Len(remoteCalls) :
            /\ remoteCalls[k].task = 2
            /\ remoteCalls[k].op = "delete"
            /\ remoteCalls[k].result = None
    /\ ~CachedLoaded(modelStatus, frames[1].id)
====
